---- MODULE Spec2Model ----
(***************************************************************************)
(* Collection-and-durability pipeline of the weather station uploader:     *)
(* WeatherCollector.collect_data / sync_pending_data (collector.py),       *)
(* LocalStorageManager (local_storage.py) and DatabaseManager              *)
(* (database.py).  One collector, single-threaded; the network, the        *)
(* primary store and the SQLite file may fail at every call.               *)
(***************************************************************************)
EXTENDS Integers, Sequences, FiniteSets, TLC

\* ---- bounds -------------------------------------------------------------
MaxCycles == 2      \* collection cycles started in one behaviour
MaxClock == 1       \* values of the storage-side clock, 0..MaxClock
DefaultLimit == 2   \* stands for get_pending_data's default limit (100)
MaxPrimary == 3     \* rows the primary store accepts in one behaviour
MaxCorrupt == 1     \* rows of the local table that get corrupted
MaxSaves == 2       \* rows saved by direct calls of LocalStorageManager.save_data
MaxBacklog == 3     \* rows of a local table left on disk by an earlier run
MaxMissing == 1     \* keys by which a drawn payload differs from a full / an empty one
MaxVaried == 1      \* fields by which a drawn record differs from the sample record
DefaultDays == 1    \* stands for cleanup_old_records' default days_to_keep (30), in ticks of the clock

\* ---- constants of the program -------------------------------------------
MaxRetries == 3     \* max_retries of _make_request
RetryDelay == 2     \* retry_delay of _make_request, in seconds
None == -1          \* Python's None (JSON null), among the readings 0, 1, ..

VARIABLES
    pc,            \* position of the collector: idle / sensors / persist / sync / loop
    queue,         \* rows of the local table weather_data, in rowid order
    primary,       \* primary[r] = rows of record r committed in the primary store
    nextId,        \* ids handed out so far (uuid4 is modelled as a fresh id)
    ncyc,          \* cycles started so far; the record of cycle n is record n
    clock,         \* datetime('now') of the local store: calls within one tick get equal
                   \* timestamps; a retention window of n days is n ticks
    pending_data,  \* the batch fetched by sync_pending_data
    idx,           \* position of the for-loop of sync_pending_data in the batch
    cur,           \* trace of the running (or just returned) collect/sync call
    got,           \* trace of the LocalStorageManager call made by the last step
    ret,           \* the call that returned in the last step
    wind_data,     \* collect_data's local: what the wind fetch returned
    sensors_data,  \* collect_data's local: what the sensor fetch returned
    wdata,         \* collect_data's local `data`: the WeatherData dict it built
    running,       \* WeatherCollector.running, the run flag of the scheduler
    req,           \* trace of a _make_request call made on its own
    pool,          \* DatabaseManager.pool: "none" (None), "open" or "closed"
    db,            \* trace of a DatabaseManager call made on its own
    sched,         \* where run_scheduler is, and what it and __del__ have done
    rt,            \* a record, the text json.dumps makes of it, what is read back
    settings,      \* the settings file: the required key it lacks, and whether
                   \* WeatherCollector(config_path) has been called on it
    rejects        \* the records the primary store rejects at every attempt

vars == <<pc, queue, primary, nextId, ncyc, clock, pending_data, idx, cur, got, ret,
          wind_data, sensors_data, wdata, running, req, pool, db, sched, rt, settings,
          rejects>>

\* ---- data ---------------------------------------------------------------
Rids == 1..MaxCycles

\* A WeatherData record, identified by the cycle that built it (its date and
\* time fields).
Record(r) == [rid |-> r]

\* json.dumps(data): a text that json.loads turns back into that dict.
Serialize(rec) == [fmt |-> "object", rec |-> rec]

\* What json.loads makes of a stored text: a dict, a JSONDecodeError, or a
\* value that is not a dict (a list, a number, null; a NULL column).
Fmts == {"object", "invalid", "nonobject"}

NoCur == [kind |-> "none", rid |-> 0, wind |-> FALSE, sens |-> FALSE,
          built |-> FALSE, aborted |-> FALSE,
          conn |-> "none", psave |-> "none", lsave |-> "none",
          sconn |-> "none", sync |-> "none", pcalls |-> 0, batch |-> <<>>, att |-> <<>>,
          count |-> 0, logged |-> <<>>, exc |-> "none", cexc |-> "none"]

NoGot == [op |-> "none", id |-> 0, ok |-> FALSE, result |-> FALSE,
          limit |-> 0, qok |-> FALSE, pend |-> <<>>, rows |-> <<>>,
          res |-> <<>>, fails |-> {}, raised |-> FALSE,
          fault |-> "none", propagated |-> FALSE, days |-> 0, count |-> 0,
          conns |-> 0]

\* No DatabaseManager call traced.
NoDb == [op |-> "none", result |-> FALSE, propagated |-> FALSE, events |-> <<>>,
         before |-> "none"]

\* A WeatherCollector just constructed: run_scheduler not called, no signal
\* handler registered, no job scheduled, the HTTP session open.
NoSched == [phase |-> "new", handlers |-> {}, jobs |-> 0, initial |-> 0,
            looped |-> FALSE, cleanups |-> 0, session |-> "open", torn |-> FALSE,
            signalled |-> FALSE, at |-> "none", stopreq |-> FALSE]

\* A complete settings file on which the collector has been constructed.
NoSettings == [missing |-> "none", state |-> "constructed"]

Min(a, b) == IF a < b THEN a ELSE b

\* The position of k in the sequence seq.
Pos(seq, k) == CHOOSE i \in 1..Len(seq) : seq[i] = k

Range(s) == {s[k] : k \in 1..Len(s)}

\* ---- payloads and records ------------------------------------------------

\* The keys collect_data reads from wind.json and from sensors.json, in the
\* order of the dict it builds.
WindKeys == <<"speed", "dir", "min1max", "min1avgspeed", "min1dir", "forevermax">>

SensorKeys == <<"hom", "hom2", "rh", "p", "ap", "csap", "billenes", "end">>

\* What _make_request hands to collect_data: None, a dict (a JSON object,
\* val maps its keys to their values), or a JSON value that is no object
\* (a list, a string, a number).
EmptyVal == [k \in {} |-> None]

NoPayload == [kind |-> "none", val |-> EmptyVal]

NonDict == [kind |-> "other", val |-> EmptyVal]

Dict(f) == [kind |-> "dict", val |-> f]

\* A payload with every key, each with a reading of its own.
FullWind == [k \in Range(WindKeys) |-> Pos(WindKeys, k)]

FullSensors == [k \in Range(SensorKeys) |-> 10 + Pos(SensorKeys, k)]

\* The payloads the station is seen to answer with in a cycle.
WindSeen == {NoPayload, NonDict, Dict(EmptyVal), Dict(FullWind)}

SensorSeen == {NoPayload, NonDict, Dict(EmptyVal), Dict(FullSensors)}

\* The dicts that differ from the full one or from {} by at most MaxMissing
\* keys, with one reading that is 0 (z) and one that is null (u).
Variants(full) ==
    LET keys == DOMAIN full
        doms == {D \in SUBSET keys : \/ Cardinality(D) <= MaxMissing
                                     \/ Cardinality(keys \ D) <= MaxMissing}
    IN  {[k \in D |-> IF k = z THEN 0 ELSE IF k = u THEN None ELSE full[k]] :
            D \in doms, z \in keys \cup {""}, u \in keys \cup {""}}

WindInputs == {NoPayload, NonDict} \cup {Dict(f) : f \in Variants(FullWind)}

SensorInputs == {NoPayload, NonDict} \cup {Dict(f) : f \in Variants(FullSensors)}

\* The value of `data` before collect_data has built the dict.
NoData ==
    [date |-> 0, time |-> 0,
     wind_speed |-> None, wind_direction |-> None, wind_min1_max |-> None,
     wind_min1_avg |-> None, wind_min1_dir |-> None, wind_forever_max |-> None,
     temperature1 |-> None, temperature2 |-> None, humidity |-> None,
     pressure |-> None, avg_pressure |-> None, rain |-> None,
     billenes |-> None, end |-> None]

NoReq == [url |-> "none", outs |-> <<>>, attempts |-> 0, waits |-> <<>>,
          result |-> "none"]

\* ---- WeatherCollector._make_request ---------------------------------------

\* What one HTTP attempt may do: return a body that parses ("ok"), raise a
\* requests.RequestException (network error, timeout, non-2xx status raised
\* by raise_for_status), return a 2xx body that response.json() cannot parse
\* ("badjson"), or raise anything else ("other").
AttemptOutcomes == {"ok", "reqerr", "badjson", "other"}

AttemptSeqs == [1..MaxRetries -> AttemptOutcomes]

\* response.json() raises requests.exceptions.JSONDecodeError, which derives
\* from InvalidJSONError, a RequestException, and from json.JSONDecodeError
\* (requests >= 2.27; setup.py requires requests >= 2.32.3).
IsRequestException(o) == o \in {"reqerr", "badjson"}

IsJSONDecodeError(o) == o = "badjson"

\* The except clause that handles the exception of a failed attempt: the
\* first one, in the order of the source, whose class the exception is an
\* instance of.
Handler(o) ==
    IF IsRequestException(o) THEN "retry"
    ELSE IF IsJSONDecodeError(o) THEN "giveup"
    ELSE "propagate"

\* A backoff that also sleeps after the last attempt
SleepsAlways(attempt) == TRUE

\* if attempt < max_retries - 1: sleep, else give up.
Sleeps(attempt) == attempt < MaxRetries - 1

\* The for-loop of _make_request from the given attempt (counted from 0, as
\* range(max_retries) does) on; waits are the sleeps made so far.
RECURSIVE MakeRequestFrom(_, _, _)
MakeRequestFrom(outs, attempt, waits) ==
    IF attempt >= MaxRetries
    THEN [result |-> "none", attempts |-> attempt, waits |-> waits]
    ELSE LET o == outs[attempt + 1]
         IN  CASE o = "ok" ->
                    [result |-> "json", attempts |-> attempt + 1, waits |-> waits]
               [] o # "ok" /\ Handler(o) = "retry" ->
                    IF Sleeps(attempt)
                    THEN MakeRequestFrom(outs, attempt + 1,
                                         Append(waits, RetryDelay * (attempt + 1)))
                    ELSE [result |-> "none", attempts |-> attempt + 1, waits |-> waits]
               [] o # "ok" /\ Handler(o) = "giveup" ->
                    [result |-> "none", attempts |-> attempt + 1, waits |-> waits]
               [] OTHER ->
                    [result |-> "raise", attempts |-> attempt + 1, waits |-> waits]

MakeRequest(outs) == MakeRequestFrom(outs, 0, <<>>)

\* The ways a _make_request call may end, over all its attempt outcomes.
FetchResults == {MakeRequest(o).result : o \in AttemptSeqs}

\* ---- json.dumps and json.loads on a WeatherData dict -----------------------

\* The keys of the dict collect_data builds, in the order it builds them.
RecordFields ==
    <<"date", "time", "wind_speed", "wind_direction", "wind_min1_max", "wind_min1_avg",
      "wind_min1_dir", "wind_forever_max", "temperature1", "temperature2", "humidity",
      "pressure", "avg_pressure", "rain", "billenes", "end">>

\* The values of a field: None, an int, a float (m stands for m / 10), a
\* str (its characters), and the float nan.
JNull == [t |-> "null"]

JInt(n) == [t |-> "int", n |-> n]

JFloat(m) == [t |-> "float", m |-> m]

JStr(cs) == [t |-> "str", s |-> cs]

JNaN == [t |-> "nan"]

\* Python's == on two such values: an int equals the float of the same
\* value, nan equals nothing.
PyEq(a, b) ==
    CASE a.t = "nan" \/ b.t = "nan" -> FALSE
      [] a.t = "int" /\ b.t = "float" -> b.m = 10 * a.n
      [] a.t = "float" /\ b.t = "int" -> a.m = 10 * b.n
      [] OTHER -> a = b

DigitChars == <<"0", "1", "2", "3", "4", "5", "6", "7", "8", "9">>

Abs(n) == IF n < 0 THEN 0 - n ELSE n

\* The decimal digits of a natural number.
RECURSIVE Digits(_)
Digits(n) ==
    IF n < 10 THEN <<DigitChars[n + 1]>>
    ELSE Digits(n \div 10) \o <<DigitChars[(n % 10) + 1]>>

Sign(n) == IF n < 0 THEN <<"-">> ELSE <<>>

\* int.__repr__
IntLiteral(n) == Sign(n) \o Digits(Abs(n))

\* A float written with %d
FloatLiteralTruncated(m) == Sign(m) \o Digits(Abs(m) \div 10)

\* float.__repr__ of m / 10: the integral part, the point, the tenths.
FloatLiteral(m) == Sign(m) \o Digits(Abs(m) \div 10) \o <<".">> \o Digits(Abs(m) % 10)

\* The body of a JSON string: the quote and the backslash are escaped.
RECURSIVE Escape(_)
Escape(cs) ==
    IF cs = <<>> THEN <<>>
    ELSE (IF Head(cs) \in {"\"", "\\"} THEN <<"\\", Head(cs)>> ELSE <<Head(cs)>>)
            \o Escape(Tail(cs))

\* The text json.dumps writes for one value.
Literal(v) ==
    CASE v.t = "null" -> <<"n", "u", "l", "l">>
      [] v.t = "nan" -> <<"N", "a", "N">>
      [] v.t = "int" -> IntLiteral(v.n)
      [] v.t = "float" -> FloatLiteral(v.m)
      [] OTHER -> <<"\"">> \o Escape(v.s) \o <<"\"">>

\* json.dumps(data): the members of the object, in the order of the dict's
\* keys, each a key and the text of its value.
Dumps(r, fields) ==
    [k \in 1..Len(fields) |-> [key |-> fields[k], lit |-> Literal(r[fields[k]])]]

DigitVal(c) == CHOOSE d \in 0..9 : DigitChars[d + 1] = c

\* The number a sequence of digits denotes.
RECURSIVE Number(_, _)
Number(cs, acc) ==
    IF cs = <<>> THEN acc ELSE Number(Tail(cs), 10 * acc + DigitVal(Head(cs)))

RECURSIVE Unescape(_)
Unescape(cs) ==
    IF cs = <<>> THEN <<>>
    ELSE IF Head(cs) = "\\" THEN <<cs[2]>> \o Unescape(SubSeq(cs, 3, Len(cs)))
    ELSE <<Head(cs)>> \o Unescape(Tail(cs))

\* The value json.loads reads from the text of one value: null, NaN, a
\* string, a number with a point (a float) or without (an int).
ParseLiteral(l) ==
    IF l = <<"n", "u", "l", "l">> THEN JNull
    ELSE IF l = <<"N", "a", "N">> THEN JNaN
    ELSE IF Head(l) = "\"" THEN JStr(Unescape(SubSeq(l, 2, Len(l) - 1)))
    ELSE LET neg  == Head(l) = "-"
             body == IF neg THEN Tail(l) ELSE l
             dots == {k \in 1..Len(body) : body[k] = "."}
         IN  IF dots = {}
             THEN JInt(IF neg THEN 0 - Number(body, 0) ELSE Number(body, 0))
             ELSE LET d == CHOOSE k \in dots : TRUE
                      m == 10 * Number(SubSeq(body, 1, d - 1), 0)
                              + Number(SubSeq(body, d + 1, Len(body)), 0)
                  IN  JFloat(IF neg THEN 0 - m ELSE m)

\* json.loads(text): a dict with the keys of the members; of two members
\* with one key the later one stays.
Loads(text) ==
    [k \in {text[i].key : i \in 1..Len(text)} |->
        LET last == CHOOSE i \in 1..Len(text) :
                       text[i].key = k /\ \A j \in (i + 1)..Len(text) : text[j].key # k
        IN  ParseLiteral(text[last].lit)]

\* data['id'] = row[0]
WithId(d, id) == [k \in DOMAIN d \cup {"id"} |-> IF k = "id" THEN JStr(id) ELSE d[k]]

\* sample_weather_data of tests/conftest.py.
SampleRecord ==
    [k \in Range(RecordFields) |->
        CASE k = "date" -> JStr(<<"2", "0", "2", "3", "-", "0", "6", "-", "1", "5">>)
          [] k = "time" -> JStr(<<"1", "2", ":", "3", "0", ":", "4", "5">>)
          [] k = "wind_speed" -> JInt(15)
          [] k = "wind_direction" -> JInt(180)
          [] k = "wind_min1_max" -> JInt(18)
          [] k = "wind_min1_avg" -> JInt(14)
          [] k = "wind_min1_dir" -> JInt(175)
          [] k = "wind_forever_max" -> JInt(35)
          [] k = "temperature1" -> JInt(22)
          [] k = "temperature2" -> JInt(23)
          [] k = "humidity" -> JFloat(654)
          [] k = "pressure" -> JFloat(10132)
          [] k = "avg_pressure" -> JFloat(10128)
          [] k = "rain" -> JFloat(0)
          [] k = "billenes" -> JInt(0)
          [] OTHER -> JInt(1)]

\* Values a field is varied to: None, ints and floats of both signs, an
\* integral float, strings with and without characters to escape, nan.
JsonValues ==
    {JNull, JNaN, JInt(0), JInt(-7), JInt(1013), JFloat(225), JFloat(-5), JFloat(220),
     JStr(<<>>), JStr(<<"a", "\"", "\\", "b">>), JStr(<<"1", "2", ".", "5">>),
     JStr(<<"n", "u", "l", "l">>)}

\* The records that differ from the sample in at most n fields.
RECURSIVE Varied(_)
Varied(n) ==
    IF n = 0 THEN {SampleRecord}
    ELSE LET P == Varied(n - 1)
         IN  P \cup {[r EXCEPT ![f] = v] : r \in P, f \in Range(RecordFields), v \in JsonValues}

\* No record saved and read back yet.
NoTrip == [rec |-> SampleRecord, text |-> <<>>, back |-> SampleRecord, id |-> <<>>,
           done |-> FALSE]

\* ---- LocalStorageManager --------------------------------------------------

\* Where a call of the local store can meet a sqlite3 error: opening the
\* connection (sqlite3.connect and the PRAGMAs of get_connection), executing
\* its statement, committing.
StorageFaults == {"none", "connect", "execute", "commit"}

\* A SELECT is not committed.
SelectFaults == {"none", "connect", "execute"}

\* A connection in autocommit mode: the statement stays once it is executed
AppliedNoRollback(fault) == fault \in {"none", "commit"}

\* get_connection: an exception in the with-block is rolled back and raised
\* again and the connection is closed, so the statement of a call stays in
\* the table only when connect, execute and commit all went through.
Applied(fault) == fault = "none"

\* except Exception as e: the handler that ends each public method of the
\* local store catches every sqlite3 error, logs it and returns the
\* method's failure value.
StoreCaught(fault) == TRUE

\* Positions of the rows with synced = 0.
PendingPos(q) == {p \in 1..Len(q) : ~q[p].synced}

\* The SELECT of get_pending_data with ORDER BY timestamp DESC
SelectRowsDesc(q, limit) ==
    LET n == Min(limit, Cardinality(PendingPos(q)))
    IN  {s \in [1..n -> PendingPos(q)] :
            /\ \A k, l \in 1..n : k < l => s[k] # s[l] /\ q[s[k]].ts >= q[s[l]].ts
            /\ \A p \in PendingPos(q) \ Range(s) :
                  \A k \in 1..n : q[s[k]].ts >= q[p].ts}

\* SELECT id, data FROM weather_data WHERE synced = 0
\*   ORDER BY timestamp ASC LIMIT ?
\* every sequence of positions the statement may yield: rows with equal
\* timestamps come in an order SQL leaves open.
SelectRows(q, limit) ==
    LET n == Min(limit, Cardinality(PendingPos(q)))
    IN  {s \in [1..n -> PendingPos(q)] :
            /\ \A k, l \in 1..n : k < l => s[k] # s[l] /\ q[s[k]].ts <= q[s[l]].ts
            /\ \A p \in PendingPos(q) \ Range(s) :
                  \A k \in 1..n : q[s[k]].ts <= q[p].ts}

\* UPDATE weather_data SET synced = 1 WHERE id = ?
SetSynced(q, id) ==
    [p \in 1..Len(q) |-> IF q[p].id = id THEN [q[p] EXCEPT !.synced = TRUE] ELSE q[p]]

\* A table whose id column is no key: the INSERT takes any id
LocalSaveOkNoKey(q, id, ok) == ok

\* The INSERT of save_data succeeds when sqlite raises no error (ok) and the
\* id is new: id is TEXT PRIMARY KEY, a second row with it is an
\* IntegrityError.  save_data returns this value.
LocalSaveOk(q, id, ok) == ok /\ \A p \in 1..Len(q) : q[p].id # id

\* save_data with INSERT OR REPLACE: a row with the id is written anew
LocalSaveReplace(q, rec, id, now, ok) ==
    IF ~ok THEN q
    ELSE IF \E p \in 1..Len(q) : q[p].id = id
    THEN [p \in 1..Len(q) |->
            IF q[p].id = id
            THEN [id |-> id, data |-> Serialize(rec), synced |-> FALSE, ts |-> now]
            ELSE q[p]]
    ELSE Append(q, [id |-> id, data |-> Serialize(rec), synced |-> FALSE, ts |-> now])

\* LocalStorageManager.save_data: ok = FALSE is any sqlite3 error; when the
\* INSERT fails nothing is inserted.
LocalSave(q, rec, id, now, ok) ==
    IF LocalSaveOk(q, id, ok)
    THEN Append(q, [id |-> id, data |-> Serialize(rec), synced |-> FALSE, ts |-> now])
    ELSE q

\* mark_as_synced that commits without having run the UPDATE
MarkAsSyncedNoUpdate(q, id, ok) == q

\* LocalStorageManager.mark_as_synced: returns ok; the UPDATE matches every
\* row with that id, none if there is no such row.
MarkAsSynced(q, id, ok) == IF ok THEN SetSynced(q, id) ELSE q

\* mark_as_synced returning cursor.rowcount > 0
MarkResultRowcount(q, id, ok) == ok /\ \E p \in 1..Len(q) : q[p].id = id

\* What mark_as_synced returns: True once the UPDATE is committed, however
\* many rows it matched; False when sqlite raised.
MarkResult(q, id, ok) == ok

\* A corrupted row that is logged but left pending
MarkCorruptedNoUpdate(q, id, ok) == q

\* LocalStorageManager._mark_corrupted_record: the error is swallowed.
MarkCorrupted(q, id, ok) == IF ok THEN SetSynced(q, id) ELSE q

\* The row loop of get_pending_data over the fetched rows, from row k on.
\* acc is `results`; fails is the set of ids whose marking UPDATE fails.
RECURSIVE WalkRows(_, _, _, _, _)
WalkRows(q, rows, k, acc, fails) ==
    IF k > Len(rows)
    THEN [res |-> acc, q |-> q, raised |-> FALSE]
    ELSE LET row == rows[k]
         IN  CASE row.data.fmt = "object" ->
                    WalkRows(q, rows, k + 1,
                             Append(acc, [id |-> row.id, rec |-> row.data.rec]), fails)
               [] row.data.fmt = "invalid" ->
                    WalkRows(MarkCorrupted(q, row.id, row.id \notin fails),
                             rows, k + 1, acc, fails)
               [] OTHER ->
                    \* data['id'] = row[0] raises TypeError, which the inner
                    \* except does not catch: the outer one returns []
                    [res |-> <<>>, q |-> q, raised |-> TRUE]

\* LocalStorageManager.get_pending_data(limit): sel is the sequence of
\* positions the SELECT yielded, qok = FALSE a failure to connect or select.
GetPendingData(q, sel, qok, fails) ==
    IF ~qok
    THEN [res |-> <<>>, q |-> q, raised |-> TRUE]
    ELSE WalkRows(q, [k \in 1..Len(sel) |-> q[sel[k]]], 1, <<>>, fails)

\* The ids of the selected rows whose text json.loads rejects.
InvalidIds(q, sel) ==
    {q[sel[k]].id : k \in {l \in 1..Len(sel) : q[sel[l]].data.fmt = "invalid"}}

\* A DELETE that does not look at the synced flag
ExpiredAnyState(q, now, days) == {p \in 1..Len(q) : q[p].ts < now - days}

\* The rows the DELETE of cleanup_old_records matches:
\*   WHERE synced = 1 AND timestamp < datetime('now', '-N days')
Expired(q, now, days) == {p \in 1..Len(q) : q[p].synced /\ q[p].ts < now - days}

\* The table without the rows at the positions gone, the others in order.
RECURSIVE Without(_, _, _)
Without(q, gone, k) ==
    IF k > Len(q) THEN <<>>
    ELSE IF k \in gone THEN Without(q, gone, k + 1)
    ELSE <<q[k]>> \o Without(q, gone, k + 1)

\* LocalStorageManager.cleanup_old_records(days_to_keep) at time now: the
\* table it leaves.
CleanupOldRecords(q, now, days, fault) ==
    IF Applied(fault) THEN Without(q, Expired(q, now, days), 1) ELSE q

\* What cleanup_old_records returns: cursor.rowcount of the DELETE once it
\* is committed, 0 from the handler.
CleanupCount(q, now, days, fault) ==
    IF fault = "none" THEN Cardinality(Expired(q, now, days)) ELSE 0

\* The connections a call of get_connection has opened when its with-block
\* runs: sqlite3.connect is the first thing that can fail.
Opened(fault) == IF fault = "connect" THEN 0 ELSE 1

\* The selected rows get_pending_data hands to _mark_corrupted_record: those
\* json.loads rejects, up to the first row that ends the call.
CorruptedSeen(q, sel) ==
    {k \in 1..Len(sel) :
        /\ q[sel[k]].data.fmt = "invalid"
        /\ \A j \in 1..(k - 1) : q[sel[j]].data.fmt # "nonobject"}

\* The local connections open at the same time during get_pending_data: its
\* own, and inside its with-block the one _mark_corrupted_record opens for
\* a row (opened for sure where its UPDATE went through).
OpenAtOnce(q, sel, fault, fails) ==
    IF fault # "none" THEN Opened(fault)
    ELSE IF \E k \in CorruptedSeen(q, sel) : q[sel[k]].id \notin fails THEN 2
    ELSE 1

\* The trace of one get_pending_data call.
GotOf(q, limit, sel, qok, fails, out) ==
    [op |-> "get", id |-> 0, ok |-> qok, result |-> ~out.raised,
     limit |-> limit, qok |-> qok,
     pend |-> [k \in 1..Len(q) |-> q[k]],
     rows |-> [k \in 1..Len(sel) |-> q[sel[k]].id],
     res |-> [k \in 1..Len(out.res) |-> out.res[k].id],
     fails |-> fails, raised |-> out.raised,
     fault |-> IF qok THEN "none" ELSE "execute", propagated |-> FALSE,
     days |-> 0, count |-> 0,
     conns |-> OpenAtOnce(q, sel, IF qok THEN "none" ELSE "execute", fails)]

\* ---- DatabaseManager ----------------------------------------------------

\* What a call of DatabaseManager did, in order: what names the step, ok
\* says whether it went through or raised.
Ev(what, ok) == [what |-> what, ok |-> ok]

\* Where is_connected() can fail: creating the pool (only when there is
\* none), taking a connection from it, the probe SELECT 1.
ConnectFaults == {"none", "pool", "getconn", "probe"}

\* Where save_data can fail once is_connected() has said yes: taking the
\* connection, the INSERT, the commit.
InsertFaults == {"none", "getconn", "insert", "commit"}

\* get_connection up to its yield: the pool is created when self.pool is
\* None, then a connection is taken from it.  A closed pool hands out none.
Acquire(p, fault) ==
    IF p = "none" /\ fault = "pool"
    THEN [pool |-> "none", ok |-> FALSE, events |-> <<Ev("create_pool", FALSE)>>]
    ELSE LET made == IF p = "none" THEN <<Ev("create_pool", TRUE)>> ELSE <<>>
             p1   == IF p = "none" THEN "open" ELSE p
             ok   == fault # "getconn" /\ p1 = "open"
         IN  [pool |-> p1, ok |-> ok, events |-> made \o <<Ev("getconn", ok)>>]

\* The rest of get_connection after a with-block that raised (raised = TRUE:
\* rollback, then putconn) or that ended normally (putconn).
Release(raised) ==
    IF raised THEN <<Ev("rollback", TRUE), Ev("putconn", TRUE)>>
    ELSE <<Ev("putconn", TRUE)>>

\* except Exception as e: the handlers of is_connected and of save_data catch
\* whatever the pool, the connection or a statement raises.
DbCaught(fault) == TRUE

\* DatabaseManager.is_connected() on a manager whose pool is p.
IsConnectedRun(p, fault) ==
    LET a == Acquire(p, fault)
    IN  IF ~a.ok
        THEN [pool |-> a.pool, result |-> FALSE, events |-> a.events]
        ELSE IF fault = "probe"
        THEN [pool |-> a.pool, result |-> FALSE,
              events |-> a.events \o <<Ev("probe", FALSE)>> \o Release(TRUE)]
        ELSE [pool |-> a.pool, result |-> TRUE,
              events |-> a.events \o <<Ev("probe", TRUE)>> \o Release(FALSE)]

\* A save_data that does not ask is_connected()
SaveGoesOnBlind(connected) == TRUE

\* if not self.is_connected(): return False
SaveGoesOn(connected) == connected

\* return True placed after the INSERT, before the commit
SaveReturnsAtInsert(f2) == f2 \in {"none", "commit"}

\* return True is the last statement of the with-block of save_data, after
\* conn.commit(): it is reached only when nothing before it raised.
SaveReturns(f2) == f2 = "none"

\* DatabaseManager.save_data(data) on a manager whose pool is p: f1 is where
\* its is_connected() fails, f2 where the rest fails.
SaveDataRun(p, f1, f2) ==
    LET c == IsConnectedRun(p, f1)
    IN  IF ~SaveGoesOn(c.result)
        THEN [pool |-> c.pool, result |-> FALSE, committed |-> FALSE,
              events |-> c.events]
        ELSE LET a == Acquire(c.pool, f2)
             IN  IF ~a.ok
                 THEN [pool |-> a.pool, result |-> SaveReturns(f2), committed |-> FALSE,
                       events |-> c.events \o a.events]
                 ELSE IF f2 = "insert"
                 THEN [pool |-> a.pool, result |-> SaveReturns(f2), committed |-> FALSE,
                       events |-> c.events \o a.events \o <<Ev("insert", FALSE)>>
                                    \o Release(TRUE)]
                 ELSE IF f2 = "commit"
                 THEN [pool |-> a.pool, result |-> SaveReturns(f2), committed |-> FALSE,
                       events |-> c.events \o a.events
                                    \o <<Ev("insert", TRUE), Ev("commit", FALSE)>>
                                    \o Release(TRUE)]
                 ELSE [pool |-> a.pool, result |-> SaveReturns(f2), committed |-> TRUE,
                       events |-> c.events \o a.events
                                    \o <<Ev("insert", TRUE), Ev("commit", TRUE)>>
                                    \o Release(FALSE)]

\* DatabaseManager.save_data(data): the probe is_connected() first, then the
\* INSERT and the commit.  Returns TRUE only when the row is committed.
DbSaveOk(probe, insert) == probe /\ insert

DbSave(prim, rec, probe, insert) ==
    IF DbSaveOk(probe, insert) THEN [prim EXCEPT ![rec.rid] = @ + 1] ELSE prim

\* The pool after a call of is_connected() that returned conn: where there
\* was none, get_connection has created one, unless creating it is what
\* failed; a probe that succeeded went through a pool.
PoolAfter(p, conn) ==
    IF p # "none" THEN {p} ELSE IF conn THEN {"open"} ELSE {"none", "open"}

PrimaryRows(prim) ==
    LET RECURSIVE Sum(_)
        Sum(S) == IF S = {} THEN 0
                  ELSE LET r == CHOOSE x \in S : TRUE IN prim[r] + Sum(S \ {r})
    IN  Sum(DOMAIN prim)

\* ---- initial state ------------------------------------------------------
Init ==
    /\ pc = "idle"
    /\ queue = <<>>
    /\ primary = [r \in Rids |-> 0]
    /\ nextId = 0
    /\ ncyc = 0
    /\ clock = 0
    /\ pending_data = <<>>
    /\ idx = 0
    /\ cur = NoCur
    /\ got = NoGot
    /\ ret = "none"
    /\ wind_data = NoPayload
    /\ sensors_data = NoPayload
    /\ wdata = NoData
    /\ running = FALSE
    /\ req = NoReq
    /\ pool = "none"
    /\ db = NoDb
    /\ sched = NoSched
    /\ rt = NoTrip
    /\ settings = NoSettings
    /\ rejects = {}

\* ---- WeatherCollector.collect_data --------------------------------------

\* missing_json_counter after both fetches.
MissingCount(w, s) == (IF w THEN 0 ELSE 1) + (IF s THEN 0 ELSE 1)

\* if missing_json_counter > 2 (the test off by one)
AbortsLate(w, s) == MissingCount(w, s) > 2

\* if missing_json_counter >= 2: abort the cycle.
Aborts(w, s) == MissingCount(w, s) >= 2

\* The primary save_data called without looking at is_connected()
CallsPrimaryBlind(conn) == TRUE

\* The persist step calls the primary save_data only when is_connected()
\* said yes.
CallsPrimary(conn) == conn

\* No fallback when the primary save_data returned False
CallsLocalNoFallback(conn, dbok) == ~conn

\* The persist step calls the local save_data when is_connected() said no or
\* when the primary save_data returned False.
CallsLocal(conn, dbok) == ~conn \/ ~dbok

\* The outcomes an INSERT into the primary store may have in this state.
InsertOutcomes == IF PrimaryRows(primary) < MaxPrimary THEN BOOLEAN ELSE {FALSE}

\* A get with a default: dict.get(key, 0)
GetOrZero(d, k) == IF k \in DOMAIN d THEN d[k] ELSE 0

\* dict.get(key): the value of the key, None when the dict has no such key.
Get(d, k) == IF k \in DOMAIN d THEN d[k] ELSE None

\* The dicts collect_data puts in the place of a fetch that returned None.
WindAbsent == [k \in Range(WindKeys) |-> None]

SensorsAbsent == [k \in Range(SensorKeys) |-> None]

\* collect_data from the None tests to the dict `data` (lines 126-182), for
\* the two fetch results and the timestamp t: the cycle aborts, or the
\* mapping raises (.get on a value that is no dict), or data is built.
CollectFields(w, s, t) ==
    LET wd == IF w.kind = "none" THEN Dict(WindAbsent) ELSE w
        sd == IF s.kind = "none" THEN Dict(SensorsAbsent) ELSE s
    IN  IF Aborts(w.kind # "none", s.kind # "none")
        THEN [aborted |-> TRUE, raised |-> FALSE, data |-> NoData]
        ELSE IF wd.kind # "dict" \/ sd.kind # "dict"
        THEN [aborted |-> FALSE, raised |-> TRUE, data |-> NoData]
        ELSE [aborted |-> FALSE, raised |-> FALSE,
              data |->
                [date |-> t, time |-> t,
                 wind_speed |-> Get(wd.val, "speed"),
                 wind_direction |-> Get(wd.val, "dir"),
                 wind_min1_max |-> Get(wd.val, "min1max"),
                 wind_min1_avg |-> Get(wd.val, "min1avgspeed"),
                 wind_min1_dir |-> Get(wd.val, "min1dir"),
                 wind_forever_max |-> Get(wd.val, "forevermax"),
                 temperature1 |-> Get(sd.val, "hom"),
                 temperature2 |-> Get(sd.val, "hom2"),
                 humidity |-> Get(sd.val, "rh"),
                 pressure |-> Get(sd.val, "p"),
                 avg_pressure |-> Get(sd.val, "ap"),
                 rain |-> Get(sd.val, "csap"),
                 billenes |-> Get(sd.val, "billenes"),
                 end |-> Get(sd.val, "end")]]

\* Leaving collect_data or sync_pending_data.
Return(c) ==
    /\ pc' = "idle"
    /\ cur' = c
    /\ ret' = IF c.kind = "cycle" THEN "collect" ELSE "sync"
    /\ pending_data' = <<>>
    /\ idx' = 0

\* A handler for requests.RequestException only
CaughtRequestOnly(e) == e = "fetch"

\* except Exception as e: every exception raised inside the try of
\* collect_data is an Exception, and is logged and swallowed.
Caught(e) == TRUE

\* An exception e raised inside the try of collect_data: the handler returns
\* from collect_data; an exception it does not catch leaves collect_data.
Raise(c, e) ==
    IF Caught(e)
    THEN Return([c EXCEPT !.cexc = e])
    ELSE /\ pc' = "propagated"
         /\ cur' = [c EXCEPT !.cexc = e]
         /\ ret' = "none"
         /\ pending_data' = <<>>
         /\ idx' = 0

\* collect_data up to the wind fetch: _make_request(wind.json) returns the
\* payload, or None, or raises what it does not handle.
FetchWind ==
    /\ pc = "idle"
    /\ ncyc < MaxCycles
    /\ \E result \in FetchResults, p \in WindSeen \ {NoPayload} :
          LET w == IF result = "json" THEN p ELSE NoPayload
          IN  IF result = "raise"
              THEN /\ Raise([NoCur EXCEPT !.kind = "cycle"], "fetch")
                   /\ UNCHANGED wind_data
              ELSE /\ cur' = [NoCur EXCEPT !.kind = "cycle", !.wind = (w.kind # "none")]
                   /\ wind_data' = w
                   /\ pc' = "sensors"
                   /\ ret' = "none"
                   /\ UNCHANGED <<pending_data, idx>>
    /\ ncyc' = ncyc + 1
    /\ got' = NoGot
    /\ UNCHANGED <<queue, primary, nextId, clock, sensors_data, wdata, running, req, pool, db, rt, settings, rejects>>

\* The sensor fetch.
FetchSensors ==
    /\ pc = "sensors"
    /\ got' = NoGot
    /\ \E result \in FetchResults, p \in SensorSeen \ {NoPayload} :
          LET s == IF result = "json" THEN p ELSE NoPayload
          IN  IF result = "raise"
              THEN /\ Raise(cur, "fetch")
                   /\ wind_data' = NoPayload
                   /\ UNCHANGED sensors_data
              ELSE /\ cur' = [cur EXCEPT !.sens = (s.kind # "none")]
                   /\ sensors_data' = s
                   /\ pc' = "map"
                   /\ ret' = "none"
                   /\ UNCHANGED <<wind_data, pending_data, idx>>
    /\ UNCHANGED <<queue, primary, nextId, ncyc, clock, wdata, running, req, pool, db, sched, rt, settings, rejects>>

\* The abort test and the mapping of the two payloads to the record.
MapFields ==
    /\ pc = "map"
    /\ got' = NoGot
    /\ LET out == CollectFields(wind_data, sensors_data, ncyc)
       IN  IF out.aborted \/ out.raised
           THEN /\ IF out.aborted
                   THEN Return([cur EXCEPT !.aborted = TRUE])
                   ELSE Raise(cur, "shape")
                /\ wind_data' = NoPayload
                /\ sensors_data' = NoPayload
                /\ wdata' = NoData
           ELSE /\ cur' = [cur EXCEPT !.built = TRUE, !.rid = ncyc]
                /\ wdata' = out.data
                /\ pc' = "persist"
                /\ ret' = "none"
                /\ UNCHANGED <<wind_data, sensors_data, pending_data, idx>>
    /\ UNCHANGED <<queue, primary, nextId, ncyc, clock, running, req, pool, db, sched, rt, settings, rejects>>

\* The persist step: is_connected(), the primary save_data and the fallback
\* to the local queue; the stores get the dict `data`, the record of this cycle.
\* exc is the call of the step that raises instead of returning, if any.
Persist ==
    /\ pc = "persist"
    /\ got' = NoGot
    /\ \E conn \in BOOLEAN, probe \in BOOLEAN, insert \in InsertOutcomes, lok \in BOOLEAN,
          exc \in {"none", "connect", "psave", "lsave"} :
          LET rec   == Record(wdata.date)
              pcall == exc # "connect" /\ CallsPrimary(conn)
              dbok  == pcall /\ exc # "psave" /\ DbSaveOk(probe, insert)
              lcall == exc \notin {"connect", "psave"} /\ CallsLocal(conn, dbok)
              lrun  == lcall /\ exc # "lsave"
              c     == [cur EXCEPT
                          !.conn = IF exc = "connect" THEN "none"
                                   ELSE IF conn THEN "yes" ELSE "no",
                          !.psave = IF ~pcall THEN "none"
                                    ELSE IF exc = "psave" THEN "raised"
                                    ELSE IF dbok THEN "ok" ELSE "fail",
                          !.lsave = IF ~lcall THEN "none"
                                    ELSE IF exc = "lsave" THEN "raised"
                                    ELSE IF lok THEN "ok" ELSE "fail",
                          !.pcalls = IF pcall THEN 1 ELSE 0]
          IN  /\ exc = "psave" => pcall
              /\ pool' \in (IF exc = "connect" THEN {pool} ELSE PoolAfter(pool, conn))
              /\ exc = "lsave" => lcall
              /\ primary' = IF pcall /\ exc # "psave"
                             THEN DbSave(primary, rec, probe, insert)
                             ELSE primary
              /\ queue' = IF lrun THEN LocalSave(queue, rec, nextId + 1, clock, lok)
                                  ELSE queue
              /\ nextId' = IF lrun /\ lok THEN nextId + 1 ELSE nextId
              /\ IF exc = "none"
                 THEN /\ cur' = c
                      /\ pc' = "sync"
                      /\ ret' = "none"
                      /\ UNCHANGED <<pending_data, idx>>
                 ELSE Raise(c, exc)
    /\ wind_data' = NoPayload
    /\ sensors_data' = NoPayload
    /\ wdata' = NoData
    /\ UNCHANGED <<ncyc, clock, running, req, db, sched, rt, settings, rejects>>

\* ---- WeatherCollector.sync_pending_data ---------------------------------

\* A pass that goes on whatever is_connected() said
SkipsSyncNever(conn) == FALSE

\* if not self.db_manager.is_connected(): return
SkipsSync(conn) == ~conn

\* sync_pending_data up to the for-loop, entered with trace c: the
\* is_connected() test, get_pending_data() and the empty test.
SyncBegin(c) ==
    \E conn \in BOOLEAN, exc \in {"none", "connect", "get"} :
     /\ pool' \in (IF exc = "connect" THEN {pool} ELSE PoolAfter(pool, conn))
     /\ IF exc = "connect" \/ (conn /\ exc = "get")
       THEN \* is_connected() or get_pending_data() raised
            /\ Return([c EXCEPT !.sync = "raised", !.exc = exc])
            /\ got' = NoGot
            /\ UNCHANGED <<queue, primary, nextId, ncyc, clock, wind_data, sensors_data, wdata, running, req, db, sched, rt, settings, rejects>>
       ELSE IF SkipsSync(conn)
       THEN /\ Return([c EXCEPT !.sconn = "no", !.sync = "skipped"])
            /\ got' = NoGot
            /\ UNCHANGED <<queue, primary, nextId, ncyc, clock, wind_data, sensors_data, wdata, running, req, db, sched, rt, settings, rejects>>
       ELSE \E qok \in BOOLEAN, sel \in SelectRows(queue, DefaultLimit) :
            \E fails \in SUBSET InvalidIds(queue, sel) :
               LET out == GetPendingData(queue, sel, qok, fails)
                   ids == [k \in 1..Len(out.res) |-> out.res[k].id]
                   sc  == IF conn THEN "yes" ELSE "no"
               IN  /\ queue' = out.q
                   /\ got' = GotOf(queue, DefaultLimit, sel, qok, fails, out)
                   /\ UNCHANGED <<primary, nextId, ncyc, clock, wind_data, sensors_data, wdata, running, req, db, sched, rt, settings, rejects>>
                   /\ IF out.res = <<>>
                      THEN Return([c EXCEPT !.sconn = sc, !.sync = "empty"])
                      ELSE /\ cur' = [c EXCEPT !.sconn = sc, !.sync = "loop",
                                                !.batch = ids]
                           /\ pending_data' = out.res
                           /\ idx' = 1
                           /\ pc' = "loop"
                           /\ ret' = "none"

\* The sync pass that ends a collection cycle (collector.py line 198).
CycleSync ==
    /\ pc = "sync"
    /\ SyncBegin(cur)

\* sync_pending_data called on its own.
SyncPending ==
    /\ pc = "idle"
    /\ SyncBegin([NoCur EXCEPT !.kind = "sync"])

\* A handler inside the loop: the entry that raised is skipped
PassEndsAtLast(exc, k, n) == k = n

\* The for-loop is left after its last entry, and at once when a call made
\* in it raises: the try of sync_pending_data encloses the whole loop.
PassEnds(exc, k, n) == exc # "none" \/ k = n

\* A loop that marks the entry whatever save_data returned
MarksAlways(ok) == TRUE

\* if self.db_manager.save_data(data): self.local_storage.mark_as_synced(...)
Marks(ok) == ok

\* One iteration of the for-loop: the primary save_data of the entry and,
\* when it returned True, mark_as_synced (its result is not looked at) and
\* the increment of synced_count.  After the last entry the counts are logged.
\* exc is the call of the iteration that raises instead of returning, if any
\* ("mark" only when save_data returned True); the handler of
\* sync_pending_data logs the error and returns.
SyncEntry ==
    /\ pc = "loop"
    /\ got' = NoGot
    /\ \E probe \in BOOLEAN, insert \in InsertOutcomes, mok \in BOOLEAN,
          exc \in {"none", "save", "mark"} :
          LET data == pending_data[idx]
              ok   == exc # "save" /\ DbSaveOk(probe, insert)
              marks == exc = "none" /\ Marks(ok)
              c    == [cur EXCEPT
                         !.att = Append(@, [id |-> data.id, ok |-> ok,
                                            marked |-> marks /\ mok]),
                         !.pcalls = @ + 1,
                         !.count = IF marks THEN @ + 1 ELSE @,
                         !.exc = IF exc # "none" THEN exc ELSE @]
          IN  /\ exc = "mark" => ok
              /\ primary' = IF exc = "save" THEN primary
                             ELSE DbSave(primary, data.rec, probe, insert)
              /\ queue' = IF marks THEN MarkAsSynced(queue, data.id, mok) ELSE queue
              /\ IF PassEnds(exc, idx, Len(pending_data))
                 THEN IF exc = "none"
                      THEN Return([c EXCEPT !.sync = "done",
                                            !.logged = <<c.count, Len(pending_data)>>])
                      ELSE Return([c EXCEPT !.sync = "raised"])
                 ELSE /\ cur' = c
                      /\ idx' = idx + 1
                      /\ pc' = "loop"
                      /\ ret' = "none"
                      /\ UNCHANGED pending_data
    /\ UNCHANGED <<nextId, ncyc, clock, wind_data, sensors_data, wdata, running, req, pool, db, sched, rt, settings, rejects>>

\* A whole sync pass as a function of the state it starts in and of what the
\* environment does during it: conn is is_connected() (and the probe of
\* save_data), acc the records whose INSERT the primary store accepts, sel,
\* qok and fails the outcome of get_pending_data(), mf the ids whose
\* mark_as_synced fails.
RECURSIVE SyncLoop(_, _, _, _, _, _)
SyncLoop(q, prim, batch, k, acc, mf) ==
    IF k > Len(batch)
    THEN [q |-> q, prim |-> prim]
    ELSE LET data == batch[k]
             ok   == DbSaveOk(TRUE, data.rec.rid \in acc)
         IN  SyncLoop(IF ok THEN MarkAsSynced(q, data.id, data.id \notin mf) ELSE q,
                      DbSave(prim, data.rec, TRUE, data.rec.rid \in acc),
                      batch, k + 1, acc, mf)

SyncPass(q, prim, conn, acc, sel, qok, fails, mf) ==
    IF ~conn
    THEN [q |-> q, prim |-> prim]
    ELSE LET out == GetPendingData(q, sel, qok, fails)
         IN  IF out.res = <<>>
             THEN [q |-> out.q, prim |-> prim]
             ELSE SyncLoop(out.q, prim, out.res, 1, acc, mf)

\* The ids a pass may fail to mark: those of the rows it selected.
SelIds(q, sel) == {q[sel[k]].id : k \in 1..Len(sel)}

\* The records of the pending rows: the only ones a pass can hand to the
\* primary store, so the only ones whose acceptance matters.
PendingRids(q) == {q[p].data.rec.rid : p \in PendingPos(q)}

\* sync_pending_data from its call to its return, in one step.  Only the
\* choices the pass looks at are drawn: the outcome of get_pending_data when
\* the primary is connected, the acceptance of the records it returned, the
\* failure of the marks the pass goes on to make.  The primary store takes
\* at most MaxPrimary rows.
SyncRun ==
    /\ pc = "idle"
    /\ \E conn \in BOOLEAN :
        /\ pool' \in PoolAfter(pool, conn)
        /\ IF ~conn
          THEN /\ cur' = [NoCur EXCEPT !.kind = "sync", !.sconn = "no"]
               /\ UNCHANGED <<queue, primary>>
          ELSE \E qok \in BOOLEAN, sel \in SelectRows(queue, DefaultLimit) :
               \E fails \in SUBSET InvalidIds(queue, sel) :
                  LET out == GetPendingData(queue, sel, qok, fails)
                      got_rids == {out.res[k].rec.rid : k \in 1..Len(out.res)}
                  IN  \E acc \in SUBSET got_rids :
                      \E mf \in SUBSET {out.res[k].id :
                                          k \in {l \in 1..Len(out.res) : out.res[l].rec.rid \in acc}} :
                         LET s1 == SyncPass(queue, primary, conn, acc, sel, qok, fails, mf)
                         IN  /\ PrimaryRows(s1.prim) <= MaxPrimary
                             /\ queue' = s1.q
                             /\ primary' = s1.prim
                             /\ cur' = [NoCur EXCEPT
                                          !.kind = "sync",
                                          !.sconn = "yes",
                                          !.batch = [k \in 1..Len(out.res) |-> out.res[k].id],
                                          !.count = PrimaryRows(s1.prim) - PrimaryRows(primary)]
    /\ got' = NoGot
    /\ ret' = "sync"
    /\ UNCHANGED <<pc, nextId, ncyc, clock, pending_data, idx, wind_data, sensors_data, wdata, running, req, db, sched, rt, settings, rejects>>

\* ---- LocalStorageManager called on its own ------------------------------

\* get_pending_data(limit)
GetPending ==
    /\ pc = "idle"
    /\ \E limit \in 1..DefaultLimit, fault \in SelectFaults :
       \E sel \in SelectRows(queue, limit) :
       \E fails \in SUBSET InvalidIds(queue, sel) :
          LET qok == fault = "none"
              out == GetPendingData(queue, sel, qok, fails)
          IN  /\ queue' = out.q
              /\ got' = [GotOf(queue, limit, sel, qok, fails, out) EXCEPT
                           !.fault = fault,
                           !.conns = OpenAtOnce(queue, sel, fault, fails),
                           !.propagated = ~StoreCaught(fault)]
    /\ cur' = NoCur
    /\ ret' = "get"
    /\ UNCHANGED <<pc, primary, nextId, ncyc, clock, pending_data, idx, wind_data, sensors_data, wdata, running, req, pool, db, sched, rt, settings, rejects>>

\* save_data(data): uuid4 draws the id; the text and the insertion time are
\* stored with synced = 0.
SaveData ==
    /\ pc = "idle"
    /\ nextId < MaxSaves
    /\ \E r \in Rids, id \in 1..(nextId + 1), fault \in StorageFaults :
          LET ok == fault = "none"
          IN  /\ queue' = LocalSave(queue, Record(r), id, clock, Applied(fault))
              /\ nextId' = IF LocalSaveOk(queue, id, Applied(fault)) THEN nextId + 1 ELSE nextId
              /\ got' = [NoGot EXCEPT !.op = "save", !.id = id, !.ok = ok,
                                      !.result = LocalSaveOk(queue, id, ok),
                                      !.fault = fault,
                                      !.conns = Opened(fault),
                                      !.propagated = ~StoreCaught(fault)]
    /\ cur' = NoCur
    /\ ret' = "save"
    /\ UNCHANGED <<pc, primary, ncyc, clock, pending_data, idx, wind_data, sensors_data, wdata, running, req, pool, db, sched, rt, settings, rejects>>

\* mark_as_synced(id), for the id of a row or for an id no row has.
MarkSynced ==
    /\ pc = "idle"
    /\ \E id \in 1..(nextId + 1), fault \in StorageFaults :
          LET ok == fault = "none"
          IN  /\ queue' = MarkAsSynced(queue, id, Applied(fault))
              /\ got' = [NoGot EXCEPT !.op = "mark", !.id = id, !.ok = ok,
                                      !.result = MarkResult(queue, id, ok),
                                      !.fault = fault,
                                      !.conns = Opened(fault),
                                      !.propagated = ~StoreCaught(fault)]
    /\ cur' = NoCur
    /\ ret' = "mark"
    /\ UNCHANGED <<pc, primary, nextId, ncyc, clock, pending_data, idx, wind_data, sensors_data, wdata, running, req, pool, db, sched, rt, settings, rejects>>

\* cleanup_old_records(days_to_keep)
Cleanup ==
    /\ pc = "idle"
    /\ \E days \in 0..DefaultDays, fault \in StorageFaults :
          /\ queue' = CleanupOldRecords(queue, clock, days, fault)
          /\ got' = [NoGot EXCEPT !.op = "cleanup", !.ok = (fault = "none"),
                                  !.days = days,
                                  !.count = CleanupCount(queue, clock, days, fault),
                                  !.pend = queue,
                                  !.fault = fault,
                                  !.conns = Opened(fault),
                                  !.propagated = ~StoreCaught(fault)]
    /\ cur' = NoCur
    /\ ret' = "cleanup"
    /\ UNCHANGED <<pc, primary, nextId, ncyc, clock, pending_data, idx, wind_data, sensors_data, wdata, running, req, pool, db, sched, rt, settings, rejects>>

\* ---- environment --------------------------------------------------------

\* What a step of the environment leaves of the traces: a trace of a call
\* that has returned is dropped, the trace of a running call is kept.
EnvTrace ==
    /\ cur' = IF pc = "idle" THEN NoCur ELSE cur
    /\ got' = NoGot
    /\ ret' = "none"

\* A second passes on the clock of the local store.
Tick ==
    /\ clock < MaxClock
    /\ clock' = clock + 1
    /\ EnvTrace
    /\ UNCHANGED <<pc, queue, primary, nextId, ncyc, pending_data, idx, wind_data, sensors_data, wdata, running, req, pool, db, sched, rt, settings, rejects>>

\* Storage corruption: the stored text of a pending row no longer is the
\* JSON object that was written (test_get_pending_data_with_invalid_json).
Corrupt ==
    /\ Cardinality({p \in 1..Len(queue) : queue[p].data.fmt # "object"}) < MaxCorrupt
    /\ \E p \in PendingPos(queue), f \in Fmts \ {"object"} :
          /\ queue[p].data.fmt = "object"
          /\ queue' = [queue EXCEPT ![p].data.fmt = f]
    /\ EnvTrace
    /\ UNCHANGED <<pc, primary, nextId, ncyc, clock, pending_data, idx, wind_data, sensors_data, wdata, running, req, pool, db, sched, rt, settings, rejects>>

\* collect_data called on its own.
CollectData ==
    /\ FetchWind
    /\ UNCHANGED sched

Next ==
    \/ CollectData
    \/ FetchSensors
    \/ MapFields
    \/ Persist
    \/ CycleSync
    \/ SyncPending
    \/ SyncEntry
    \/ GetPending
    \/ Tick
    \/ Corrupt

Spec == Init /\ [][Next]_vars

\* ---- WeatherCollector.run_scheduler ---------------------------------------

\* sched.phase is where run_scheduler is: "new" (not called), "initial"
\* (before the initial collect_data), "collect0" (in it or back from it),
\* "test" (at while self.running), "body", "pending", "job", "sleep" (in the
\* try of an iteration), "backoff" (in its handler), "stopped" (the loop was
\* left by its test), "done" (run_scheduler returned), "raised" (an
\* exception left run_scheduler).

\* The signals run_scheduler installs signal_handler for.
Signals == {"SIGINT", "SIGTERM"}

\* A start that installs the handler for SIGINT only
StartedNoTerminate(s) ==
    [s EXCEPT !.phase = "initial", !.handlers = {"SIGINT"}, !.jobs = s.jobs + 1]

\* run_scheduler up to the initial collection: the two signal.signal calls
\* and schedule.every(1).minutes.do(self.collect_data).
Started(s) ==
    [s EXCEPT !.phase = "initial", !.handlers = Signals, !.jobs = s.jobs + 1]

\* One call of _cleanup: session.close(), perform_cleanup() and
\* cleanup_old_records() inside one try that swallows every Exception.
CleanedUp(s) == [s EXCEPT !.cleanups = s.cleanups + 1, !.session = "closed"]

\* run_scheduler up to the initial collection: self.running = True, the
\* handlers, the job.
RunScheduler ==
    /\ pc = "idle"
    /\ sched.phase = "new"
    /\ ~sched.torn
    /\ running' = TRUE
    /\ sched' = Started(sched)
    /\ EnvTrace
    /\ UNCHANGED <<pc, queue, primary, nextId, ncyc, clock, pending_data, idx, wind_data, sensors_data, wdata, req, pool, db, rt, settings, rejects>>

\* signal_handler, run on a signal it is installed for, at any point of
\* run_scheduler or after it: self.running = False.
SignalHandler ==
    /\ running
    /\ ~sched.torn
    /\ \E sig \in sched.handlers :
          sched' = [sched EXCEPT !.signalled = sched.signalled \/ sched.phase # "raised",
                                 !.at = pc]
    /\ running' = FALSE
    /\ EnvTrace
    /\ UNCHANGED <<pc, queue, primary, nextId, ncyc, clock, pending_data, idx, wind_data, sensors_data, wdata, req, pool, db, rt, settings, rejects>>

\* WeatherService.SvcStop, called by the service control manager on its own
\* thread whenever a stop is asked for, before, during or after SvcDoRun:
\* self.collector.running = False.
SvcStop ==
    /\ ~sched.stopreq
    /\ ~sched.torn
    /\ sched' = [sched EXCEPT !.stopreq = TRUE]
    /\ running' = FALSE
    /\ EnvTrace
    /\ UNCHANGED <<pc, queue, primary, nextId, ncyc, clock, pending_data, idx, wind_data, sensors_data, wdata, req, pool, db, rt, settings, rejects>>

\* The initial self.collect_data() of run_scheduler.
InitialCollect ==
    /\ sched.phase = "initial"
    /\ FetchWind
    /\ sched' = [sched EXCEPT !.phase = "collect0", !.initial = sched.initial + 1]

\* A loop whose test could run with collect_data at any of its steps
ReturnedOrNot(p) == TRUE

\* The loop and collect_data run on one thread: the test of the loop is
\* evaluated when the collect_data call before it has returned.
Returned(p) == p = "idle"

\* while self.running: entered after the initial collection has returned
\* and after every iteration; the loop is left when the flag is false.
LoopTest ==
    /\ Returned(pc)
    /\ sched.phase \in {"collect0", "test"}
    /\ sched' = [sched EXCEPT !.phase = IF running THEN "body" ELSE "stopped",
                              !.looped = TRUE]
    /\ EnvTrace
    /\ UNCHANGED <<pc, queue, primary, nextId, ncyc, clock, pending_data, idx, wind_data, sensors_data, wdata, running, req, pool, db, rt, settings, rejects>>

\* check_resources() and perform_cleanup(): they return, or raise into the
\* handler of the loop.
CheckResources ==
    /\ sched.phase = "body"
    /\ \E raised \in BOOLEAN :
          sched' = [sched EXCEPT !.phase = IF raised THEN "backoff" ELSE "pending"]
    /\ EnvTrace
    /\ UNCHANGED <<pc, queue, primary, nextId, ncyc, clock, pending_data, idx, wind_data, sensors_data, wdata, running, req, pool, db, rt, settings, rejects>>

\* schedule.run_pending() with no job due, or raising into the handler.
RunPending ==
    /\ sched.phase = "pending"
    /\ \E raised \in BOOLEAN :
          sched' = [sched EXCEPT !.phase = IF raised THEN "backoff" ELSE "sleep"]
    /\ EnvTrace
    /\ UNCHANGED <<pc, queue, primary, nextId, ncyc, clock, pending_data, idx, wind_data, sensors_data, wdata, running, req, pool, db, rt, settings, rejects>>

\* A job that a timer would start wherever the loop is
JobRunsAnywhere(phase) == TRUE

\* The job runs inside schedule.run_pending(), called by the loop between
\* the resource check and the tick sleep, and nowhere else.
JobRuns(phase) == phase = "pending"

\* schedule.run_pending() with the job due: a collect_data call.
ScheduledCycle ==
    /\ JobRuns(sched.phase)
    /\ FetchWind
    /\ sched' = [sched EXCEPT !.phase = "job"]

\* time.sleep(1), after run_pending has returned: it returns, or raises
\* into the handler of the loop; a tick of the store's clock may pass.
TickSleep ==
    /\ pc = "idle"
    /\ sched.phase \in {"job", "sleep"}
    /\ \E raised \in BOOLEAN :
          sched' = [sched EXCEPT !.phase = IF raised THEN "backoff" ELSE "test"]
    /\ clock' \in {clock, Min(clock + 1, MaxClock)}
    /\ EnvTrace
    /\ UNCHANGED <<pc, queue, primary, nextId, ncyc, pending_data, idx, wind_data, sensors_data, wdata, running, req, pool, db, rt, settings, rejects>>

\* The handler of the loop: the error is logged, then time.sleep(5), which
\* no try protects: what it raises leaves run_scheduler.
Backoff ==
    /\ sched.phase = "backoff"
    /\ \E raised \in BOOLEAN :
          sched' = [sched EXCEPT !.phase = IF raised THEN "raised" ELSE "test"]
    /\ EnvTrace
    /\ UNCHANGED <<pc, queue, primary, nextId, ncyc, clock, pending_data, idx, wind_data, sensors_data, wdata, running, req, pool, db, rt, settings, rejects>>

\* After the loop: "Weather collector stopped" and self._cleanup().
FinalCleanup ==
    /\ sched.phase = "stopped"
    /\ \E fault \in StorageFaults :
          queue' = CleanupOldRecords(queue, clock, DefaultDays, fault)
    /\ sched' = [CleanedUp(sched) EXCEPT !.phase = "done"]
    /\ EnvTrace
    /\ UNCHANGED <<pc, primary, nextId, ncyc, clock, pending_data, idx, wind_data, sensors_data, wdata, running, req, pool, db, rt, settings, rejects>>

\* The collector is torn down when run_scheduler is not running:
\* WeatherCollector.__del__ calls _cleanup(), and DatabaseManager.__del__
\* of the manager it owns closes the pool if there is one.
Teardown ==
    /\ pc = "idle"
    /\ sched.phase \in {"new", "done", "raised"}
    /\ ~sched.torn
    /\ \E fault \in StorageFaults :
          queue' = CleanupOldRecords(queue, clock, DefaultDays, fault)
    /\ sched' = [CleanedUp(sched) EXCEPT !.torn = TRUE]
    /\ pool' = IF pool = "open" THEN "closed" ELSE pool
    /\ EnvTrace
    /\ UNCHANGED <<pc, primary, nextId, ncyc, clock, pending_data, idx, wind_data, sensors_data, wdata, running, req, db, rt, settings, rejects>>

\* The collector run by its scheduler.
NextSched ==
    \/ RunScheduler
    \/ SignalHandler
    \/ SvcStop
    \/ InitialCollect
    \/ LoopTest
    \/ CheckResources
    \/ RunPending
    \/ ScheduledCycle
    \/ TickSleep
    \/ Backoff
    \/ FinalCleanup
    \/ Teardown
    \/ FetchSensors
    \/ MapFields
    \/ Persist
    \/ CycleSync
    \/ SyncEntry

SpecSched == Init /\ [][NextSched]_vars

\* ---- startup on a settings file -------------------------------------------

\* The keys the code reads with settings[...]: collect_data (station_ip),
\* _create_pool and connect (the five connection keys), save_data
\* (database_table).
RequiredKeys ==
    {"station_ip", "database_host", "database_port", "database_name", "database_user",
     "database_password", "database_table"}

\* The keys _create_pool reads.
PoolKeys == RequiredKeys \ {"station_ip", "database_table"}

\* Whether WeatherCollector.__init__ raises: it reads the settings with
\* .get and a default (get_logger) and hands them on; what it re-raises is a
\* failure of the two constructors, that is of init_db.
ConstructRaises(missing, dbinit) == ~dbinit

\* A settings file not loaded yet, with at most one required key missing.
InitStart ==
    /\ pc = "idle"
    /\ queue = <<>>
    /\ primary = [r \in Rids |-> 0]
    /\ nextId = 0
    /\ ncyc = 0
    /\ clock = 0
    /\ pending_data = <<>>
    /\ idx = 0
    /\ cur = NoCur
    /\ got = NoGot
    /\ ret = "none"
    /\ wind_data = NoPayload
    /\ sensors_data = NoPayload
    /\ wdata = NoData
    /\ running = FALSE
    /\ req = NoReq
    /\ pool = "none"
    /\ db = NoDb
    /\ sched = NoSched
    /\ rt = NoTrip
    /\ settings \in {[missing |-> k, state |-> "unloaded"] : k \in RequiredKeys \cup {"none"}}
    /\ rejects = {}

\* WeatherCollector(config_path)
Construct ==
    /\ settings.state = "unloaded"
    /\ \E dbinit \in BOOLEAN :
          settings' = [settings EXCEPT
                         !.state = IF ConstructRaises(settings.missing, dbinit)
                                   THEN "failed" ELSE "constructed"]
    /\ UNCHANGED <<pc, queue, primary, nextId, ncyc, clock, pending_data, idx, cur, got, ret, wind_data, sensors_data, wdata, running, req, pool, db, sched, rt, rejects>>

\* What a missing key makes of a step: without station_ip the f-string at
\* the top of collect_data's try raises KeyError and the cycle ends there;
\* without a connection key _create_pool raises KeyError inside
\* is_connected, which returns False; without database_table the f-string
\* of the INSERT raises inside save_data, which returns False.
KeysAllow ==
    /\ settings.missing = "station_ip" =>
          (ncyc' > ncyc => pc' = "idle" /\ cur'.cexc = "fetch")
    /\ settings.missing \in PoolKeys => pool' = "none" /\ primary' = primary
    /\ settings.missing = "database_table" => primary' = primary

\* A step of the collector constructed on the settings.
WithSettings(A) ==
    /\ settings.state = "constructed"
    /\ A
    /\ KeysAllow

NextStart ==
    \/ Construct
    \/ WithSettings(RunScheduler)
    \/ WithSettings(SignalHandler)
    \/ WithSettings(SvcStop)
    \/ WithSettings(InitialCollect)
    \/ WithSettings(LoopTest)
    \/ WithSettings(CheckResources)
    \/ WithSettings(RunPending)
    \/ WithSettings(ScheduledCycle)
    \/ WithSettings(TickSleep)
    \/ WithSettings(Backoff)
    \/ WithSettings(FinalCleanup)
    \/ WithSettings(Teardown)
    \/ WithSettings(FetchSensors)
    \/ WithSettings(MapFields)
    \/ WithSettings(Persist)
    \/ WithSettings(CycleSync)
    \/ WithSettings(SyncEntry)

SpecStart == InitStart /\ [][NextStart]_vars

\* ---- the mapping of collect_data on drawn payloads -------------------------

\* A cycle whose two fetches have returned: one of them any payload of the
\* drawn family, the other one of those seen in the cycles above.
InitMap ==
    /\ \/ wind_data \in WindInputs /\ sensors_data \in SensorSeen
       \/ wind_data \in WindSeen /\ sensors_data \in SensorInputs
    /\ pc = "map"
    /\ cur = [NoCur EXCEPT !.kind = "cycle", !.wind = (wind_data.kind # "none"),
                           !.sens = (sensors_data.kind # "none")]
    /\ ncyc = 1
    /\ queue = <<>>
    /\ primary = [r \in Rids |-> 0]
    /\ nextId = 0
    /\ clock = 0
    /\ pending_data = <<>>
    /\ idx = 0
    /\ got = NoGot
    /\ ret = "none"
    /\ wdata = NoData
    /\ running = FALSE
    /\ req = NoReq
    /\ pool = "none"
    /\ db = NoDb
    /\ sched = NoSched
    /\ rt = NoTrip
    /\ settings = NoSettings
    /\ rejects = {}

NextMap == MapFields

SpecMap == InitMap /\ [][NextMap]_vars

\* ---- _make_request on drawn attempt outcomes ------------------------------

\* A call of _make_request(url) about to be made; outs[k] is what the k-th
\* HTTP attempt does if the call gets to it.
InitFetch ==
    /\ req \in {[url |-> u, outs |-> o, attempts |-> 0, waits |-> <<>>,
                  result |-> "pending"] :
                    u \in {"wind.json", "sensors.json"}, o \in AttemptSeqs}
    /\ pc = "idle"
    /\ queue = <<>>
    /\ primary = [r \in Rids |-> 0]
    /\ nextId = 0
    /\ ncyc = 0
    /\ clock = 0
    /\ pending_data = <<>>
    /\ idx = 0
    /\ cur = NoCur
    /\ got = NoGot
    /\ ret = "none"
    /\ wind_data = NoPayload
    /\ sensors_data = NoPayload
    /\ wdata = NoData
    /\ running = FALSE
    /\ pool = "none"
    /\ db = NoDb
    /\ sched = NoSched
    /\ rt = NoTrip
    /\ settings = NoSettings
    /\ rejects = {}

\* The call runs to its end: result is "json" (the decoded body is
\* returned), "none" (None is returned) or "raise".
DoRequest ==
    /\ req.result = "pending"
    /\ LET r == MakeRequest(req.outs)
       IN  req' = [req EXCEPT !.attempts = r.attempts, !.waits = r.waits,
                              !.result = r.result]
    /\ UNCHANGED <<pc, queue, primary, nextId, ncyc, clock, pending_data, idx, cur, got,
                   ret, wind_data, sensors_data, wdata, running, pool, db, sched, rt, settings, rejects>>

NextFetch == DoRequest

SpecFetch == InitFetch /\ [][NextFetch]_vars

\* ---- DatabaseManager called on its own ------------------------------------

\* is_connected()
IsConnected ==
    /\ pc = "idle"
    /\ \E fault \in ConnectFaults :
          /\ fault = "pool" => pool = "none"
          /\ LET run == IsConnectedRun(pool, fault)
             IN  /\ pool' = run.pool
                 /\ db' = [op |-> "is_connected", result |-> run.result,
                           propagated |-> ~DbCaught(fault), events |-> run.events,
                           before |-> pool]
    /\ UNCHANGED <<pc, queue, primary, nextId, ncyc, clock, pending_data, idx, cur, got, ret, wind_data, sensors_data, wdata, running, req, sched, rt, settings, rejects>>

\* connect(): the same probe as is_connected(), logged as a connection.
Connect ==
    /\ pc = "idle"
    /\ \E fault \in ConnectFaults :
          /\ fault = "pool" => pool = "none"
          /\ LET run == IsConnectedRun(pool, fault)
             IN  /\ pool' = run.pool
                 /\ db' = [op |-> "connect", result |-> run.result,
                           propagated |-> ~DbCaught(fault), events |-> run.events,
                           before |-> pool]
    /\ UNCHANGED <<pc, queue, primary, nextId, ncyc, clock, pending_data, idx, cur, got, ret, wind_data, sensors_data, wdata, running, req, sched, rt, settings, rejects>>

\* save_data(data) for the record of some cycle; the primary store takes at
\* most MaxPrimary rows.
PrimarySave ==
    /\ pc = "idle"
    /\ \E r \in Rids, f1 \in ConnectFaults, f2 \in InsertFaults :
          /\ f1 = "pool" => pool = "none"
          /\ (f2 = "none") \in InsertOutcomes
          /\ LET run == SaveDataRun(pool, f1, f2)
             IN  /\ pool' = run.pool
                 /\ primary' = DbSave(primary, Record(r),
                                      IsConnectedRun(pool, f1).result, f2 = "none")
                 /\ db' = [op |-> "save", result |-> run.result,
                           propagated |-> ~(DbCaught(f1) /\ DbCaught(f2)),
                           events |-> run.events, before |-> pool]
    /\ UNCHANGED <<pc, queue, nextId, ncyc, clock, pending_data, idx, cur, got, ret, wind_data, sensors_data, wdata, running, req, sched, rt, settings, rejects>>

\* The primary store client used on its own, as tests/test_database.py does.
NextDb ==
    \/ IsConnected
    \/ Connect
    \/ PrimarySave

SpecDb == Init /\ [][NextDb]_vars

\* ---- a record saved to the local queue and read back ------------------------

\* A record about to be saved.
InitTrip ==
    /\ rt \in {[NoTrip EXCEPT !.rec = r] : r \in Varied(MaxVaried)}
    /\ pc = "idle"
    /\ queue = <<>>
    /\ primary = [r \in Rids |-> 0]
    /\ nextId = 0
    /\ ncyc = 0
    /\ clock = 0
    /\ pending_data = <<>>
    /\ idx = 0
    /\ cur = NoCur
    /\ got = NoGot
    /\ ret = "none"
    /\ wind_data = NoPayload
    /\ sensors_data = NoPayload
    /\ wdata = NoData
    /\ running = FALSE
    /\ req = NoReq
    /\ pool = "none"
    /\ db = NoDb
    /\ sched = NoSched
    /\ settings = NoSettings
    /\ rejects = {}

\* save_data(rec) stores json.dumps(rec) under a fresh id; get_pending_data
\* reads the row back: json.loads of the stored text, with the id added.
SaveAndLoad ==
    /\ ~rt.done
    /\ \E id \in {<<"u", "1">>, <<"u", "2">>} :
          LET text == Dumps(rt.rec, RecordFields)
          IN  rt' = [rt EXCEPT !.text = text, !.id = id,
                               !.back = WithId(Loads(text), id), !.done = TRUE]
    /\ UNCHANGED <<pc, queue, primary, nextId, ncyc, clock, pending_data, idx, cur, got, ret, wind_data, sensors_data, wdata, running, req, pool, db, sched, settings, rejects>>

NextTrip == SaveAndLoad

SpecTrip == InitTrip /\ [][NextTrip]_vars

\* The local store used on its own, as tests/test_local_storage.py does.
NextStore ==
    \/ SaveData
    \/ MarkSynced
    \/ GetPending
    \/ Cleanup
    \/ Tick
    \/ Corrupt

SpecStore == Init /\ [][NextStore]_vars

\* A collector constructed on a local table that an earlier run left on disk
\* (CREATE TABLE IF NOT EXISTS keeps the rows): n rows saved in the order of
\* their ids, row p holding record p, some synced by earlier passes, some
\* corrupted since.
BacklogRids == 1..MaxBacklog

InitBacklog ==
    /\ \E n \in 0..MaxBacklog :
       \E f \in [1..n -> Fmts], sy \in [1..n -> BOOLEAN], t \in [1..n -> 0..MaxClock] :
          /\ \A k, l \in 1..n : k < l => t[k] <= t[l]
          /\ Cardinality({k \in 1..n : f[k] # "object"}) <= MaxCorrupt
          /\ queue = [p \in 1..n |-> [id |-> p, data |-> [fmt |-> f[p], rec |-> Record(p)],
                                      synced |-> sy[p], ts |-> t[p]]]
          /\ primary = [r \in BacklogRids |->
                          IF r <= n /\ sy[r] /\ f[r] = "object" THEN 1 ELSE 0]
          /\ nextId = n
    /\ pc = "idle"
    /\ ncyc = 0
    /\ clock = MaxClock
    /\ pending_data = <<>>
    /\ idx = 0
    /\ cur = NoCur
    /\ got = NoGot
    /\ ret = "none"
    /\ wind_data = NoPayload
    /\ sensors_data = NoPayload
    /\ wdata = NoData
    /\ running = FALSE
    /\ req = NoReq
    /\ pool = "none"
    /\ db = NoDb
    /\ sched = NoSched
    /\ rt = NoTrip
    /\ settings = NoSettings
    /\ rejects = {}

\* Sync passes over such a backlog.
NextSync == SyncRun

SpecSync == InitBacklog /\ [][NextSync]_vars

\* ---- the backlog under a primary store that stays connected ----------------

\* A backlog, and the records the primary store rejects at every attempt.
InitDrain ==
    /\ \E n \in 0..MaxBacklog :
       \E f \in [1..n -> Fmts], sy \in [1..n -> BOOLEAN], t \in [1..n -> 0..MaxClock] :
          /\ \A k, l \in 1..n : k < l => t[k] <= t[l]
          /\ Cardinality({k \in 1..n : f[k] # "object"}) <= MaxCorrupt
          /\ queue = [p \in 1..n |-> [id |-> p, data |-> [fmt |-> f[p], rec |-> Record(p)],
                                      synced |-> sy[p], ts |-> t[p]]]
          /\ primary = [r \in BacklogRids |->
                          IF r <= n /\ sy[r] /\ f[r] = "object" THEN 1 ELSE 0]
          /\ nextId = n
    /\ pc = "idle"
    /\ ncyc = 0
    /\ clock = MaxClock
    /\ pending_data = <<>>
    /\ idx = 0
    /\ cur = NoCur
    /\ got = NoGot
    /\ ret = "none"
    /\ wind_data = NoPayload
    /\ sensors_data = NoPayload
    /\ wdata = NoData
    /\ running = FALSE
    /\ req = NoReq
    /\ pool = "none"
    /\ db = NoDb
    /\ sched = NoSched
    /\ rt = NoTrip
    /\ settings = NoSettings
    /\ rejects \in SUBSET BacklogRids

\* The rows of the backlog fit in the primary store; a store that is handed
\* more rows than that has no room for them.
Room(prim, n) == PrimaryRows(prim) + n <= MaxBacklog

\* A cycle that finds both sources missing: it returns without a persist
\* step and without a sync pass.  Cycles are counted modulo MaxCycles + 1.
AbortedCycle ==
    /\ pc = "idle"
    /\ ncyc' = (ncyc + 1) % (MaxCycles + 1)
    /\ cur' = [NoCur EXCEPT !.kind = "cycle", !.aborted = TRUE]
    /\ got' = NoGot
    /\ ret' = "collect"
    /\ UNCHANGED <<pc, queue, primary, nextId, clock, pending_data, idx, wind_data, sensors_data, wdata, running, req, pool, db, sched, rt, settings, rejects>>

\* A cycle that is not aborted, with the primary store connected and
\* accepting: its own record goes to the primary store, and its sync pass
\* runs with no storage error in the local store and every insert accepted
\* but those of the records in rejects.
SyncedCycle ==
    /\ pc = "idle"
    /\ ncyc' = (ncyc + 1) % (MaxCycles + 1)
    /\ \E sel \in SelectRows(queue, DefaultLimit) :
          LET out  == GetPendingData(queue, sel, TRUE, {})
              rids == {out.res[k].rec.rid : k \in 1..Len(out.res)}
              acc  == IF Room(primary, Len(out.res)) THEN rids \ rejects ELSE {}
              s1   == SyncPass(queue, primary, TRUE, acc, sel, TRUE, {}, {})
          IN  /\ queue' = s1.q
              /\ primary' = s1.prim
              /\ cur' = [NoCur EXCEPT
                           !.kind = "cycle", !.built = TRUE, !.sconn = "yes",
                           !.sync = IF out.res = <<>> THEN "empty" ELSE "done",
                           !.batch = [k \in 1..Len(out.res) |-> out.res[k].id],
                           !.count = PrimaryRows(s1.prim) - PrimaryRows(primary)]
    /\ pool' = "open"
    /\ got' = NoGot
    /\ ret' = "collect"
    /\ UNCHANGED <<pc, nextId, clock, pending_data, idx, wind_data, sensors_data, wdata, running, req, db, sched, rt, settings, rejects>>

NextDrain == AbortedCycle \/ SyncedCycle

\* The scheduler goes on starting cycles.
SpecDrain == InitDrain /\ [][NextDrain]_vars /\ WF_vars(NextDrain)

TypeOK ==
    /\ pc \in {"idle", "sensors", "map", "persist", "sync", "loop", "propagated"}
    /\ running \in BOOLEAN
    /\ wind_data \in WindSeen \cup WindInputs
    /\ sensors_data \in SensorSeen \cup SensorInputs
    /\ ncyc \in 0..MaxCycles
    /\ clock \in 0..MaxClock
    /\ \A p \in 1..Len(queue) : queue[p].data.fmt \in Fmts /\ queue[p].synced \in BOOLEAN
    /\ ret \in {"none", "collect", "sync", "get", "save", "mark", "cleanup"}
    /\ pool \in {"none", "open", "closed"}
    /\ sched.phase \in {"new", "initial", "collect0", "test", "body", "pending", "job",
                        "sleep", "backoff", "stopped", "done", "raised"}
    /\ sched.handlers \subseteq Signals
    /\ sched.cleanups \in 0..2

\* ---- helpers of the properties ------------------------------------------

\* The positions of the rows of the local table that hold record r.
RowsOf(r) == {p \in 1..Len(queue) : queue[p].data.rec.rid = r}

\* The row of the local table with the given id is marked synced.
SyncedId(id) == \E p \in 1..Len(queue) : queue[p].id = id /\ queue[p].synced

\* collect_data returned in the last step.
CycleReturned == ret = "collect" /\ cur.kind = "cycle"

\* A sync pass (of a cycle or on its own) ran its loop to the end and
\* returned in the last step.
PassReturned == ret \in {"collect", "sync"} /\ cur.sync = "done"

\* ---- C1 -------------------------------------------------------------------
\* C1: whatever fails between and during cycles and sync passes, no collected
\* record is committed in the primary store more than once.
C1_NoDuplicateInsert == \A r \in Rids : primary[r] <= 1

\* ---- C2 -------------------------------------------------------------------
\* C2: when collect_data returns from a cycle that built a record, the record
\* is committed in the primary store or is a row of the local queue.
C2_DurableAtReturn ==
    (CycleReturned /\ cur.built) => (primary[cur.rid] >= 1 \/ RowsOf(cur.rid) # {})

C4_NeverCalledInCycle ==
    (CycleReturned /\ cur.conn = "no" /\ cur.lsave = "ok")
        => cur.pcalls = 0 /\ RowsOf(cur.rid) # {}

\* C4 amended: in such a cycle the persist step does not call the primary
\* save_data and calls the local save_data exactly once, the record being a
\* pending row when that save succeeded; the primary save_data is called in
\* the cycle only by its sync pass, once per entry that pass has attempted,
\* hence only when is_connected() said yes at the start of the pass.
C4_NotConnected ==
    (cur.kind = "cycle" /\ cur.conn = "no")
        => /\ cur.psave = "none"
           /\ cur.lsave # "none"
           /\ cur.pcalls = Len(cur.att)
           /\ cur.pcalls > 0 => cur.sync \in {"loop", "done", "raised"}
           /\ pc = "sync" =>
                 /\ cur.pcalls = 0
                 /\ primary[cur.rid] = 0
                 /\ Cardinality(RowsOf(cur.rid)) = (IF cur.lsave = "ok" THEN 1 ELSE 0)
                 /\ RowsOf(cur.rid) \subseteq PendingPos(queue)

C4_Witness ==
    /\ CycleReturned /\ cur.conn = "no" /\ cur.lsave = "ok"
    /\ cur.sync = "done" /\ cur.pcalls > 0

\* ---- C5 -------------------------------------------------------------------
\* C5: a cycle whose wind fetch and sensor fetch both return absent aborts:
\* it calls neither the primary save_data nor the local save_data nor the sync
\* routine, and none of its steps changes the primary store or the local queue.
C5_BothAbsentAborts ==
    /\ [](CycleReturned /\ ~cur.wind /\ ~cur.sens /\ cur.cexc = "none"
            => /\ cur.aborted /\ ~cur.built
               /\ cur.psave = "none" /\ cur.lsave = "none"
               /\ cur.sync = "none" /\ cur.pcalls = 0 /\ cur.att = <<>>)
    /\ [][(cur'.kind = "cycle" /\ ~cur'.built /\ pc' # pc)
             => UNCHANGED <<queue, primary, nextId>>]_vars

C5_Witness == CycleReturned /\ cur.aborted /\ ~cur.wind /\ ~cur.sens /\ Len(queue) > 0

\* ---- C6 -------------------------------------------------------------------
\* C6: a sync pass over N fetched entries in which the primary accepts the
\* first K inserts and rejects the rest leaves exactly the first K entries
\* marked synced, the other N-K pending, and logs the counts K/N.
C6_FirstKMarked ==
    PassReturned =>
        LET N == Len(cur.batch)
            K == cur.count
        IN  (\A k \in 1..N : cur.att[k].ok <=> k <= K)
               => /\ \A k \in 1..N : SyncedId(cur.batch[k]) <=> k <= K
                  /\ cur.logged = <<K, N>>

\* ---- C7 -------------------------------------------------------------------
\* C7: in a sync pass that raises no exception every entry of the fetched
\* batch gets exactly one primary insert attempt, the attempts are made in
\* batch order whatever was rejected, and an entry is marked synced if and
\* only if its own insert was accepted.
C7_EachEntryOnce ==
    PassReturned =>
        /\ [k \in 1..Len(cur.att) |-> cur.att[k].id] = cur.batch
        /\ \A k \in 1..Len(cur.batch) : SyncedId(cur.batch[k]) <=> cur.att[k].ok

\* ---- the last get_pending_data call ---------------------------------------

\* The row with the given id as it was when the call began.
GotRow(id) == got.pend[CHOOSE p \in 1..Len(got.pend) : got.pend[p].id = id]

\* The row loop of the call got as far as the k-th selected row.
Reached(k) ==
    got.qok /\ \A j \in 1..(k - 1) : GotRow(got.rows[j]).data.fmt # "nonobject"

C9_CorruptedNeverBlocks ==
    got.qok => \A k \in 1..Len(got.rows) :
                  GotRow(got.rows[k]).data.fmt = "object" => got.rows[k] \in Range(got.res)

C11_MarkOnlyThatEntry ==
    [][ret' = "mark" =>
          LET id == got'.id
              absent == \A p \in 1..Len(queue) : queue[p].id # id
          IN  /\ got'.result \in BOOLEAN
              /\ got'.ok => got'.result
              /\ absent => queue' = queue
              /\ Len(queue') = Len(queue)
              /\ \A p \in 1..Len(queue) :
                    /\ queue[p].id # id => queue'[p] = queue[p]
                    /\ queue[p].id = id =>
                          /\ queue'[p] = [queue[p] EXCEPT !.synced = queue'[p].synced]
                          /\ got'.ok => queue'[p].synced
                          /\ ~got'.ok => queue'[p] = queue[p]]_vars

\* A call for an id no row has returned True by a queue that has a pending
\* row, after a call that marked another row.
C11_Witness ==
    /\ ret = "mark" /\ got.result
    /\ \A p \in 1..Len(queue) : queue[p].id # got.id
    /\ \E p, n \in 1..Len(queue) : ~queue[p].synced /\ queue[n].synced

C13_RaiseEndsPass ==
    cur.exc # "none" =>
       /\ pc = "idle"
       /\ cur.sync = "raised"
       /\ ret = (IF cur.kind = "cycle" THEN "collect" ELSE "sync")
       /\ cur.logged = <<>>
       /\ Len(cur.att) <= Len(cur.batch)
       /\ \A k \in 1..Len(cur.att) :
             /\ cur.att[k].id = cur.batch[k]
             /\ cur.att[k].marked => SyncedId(cur.att[k].id)
             /\ k < Len(cur.att) => cur.att[k].ok
                                       \/ ~cur.att[k].marked
       /\ \A k \in (Len(cur.att) + 1)..Len(cur.batch) : ~SyncedId(cur.batch[k])
       /\ cur.pcalls = Len(cur.att) + (IF cur.psave = "none" THEN 0 ELSE 1)

\* The sync pass of a cycle, over two entries: the call for the first one
\* raised after the primary had committed it, the second is not attempted.
C13_Witness ==
    /\ cur.kind = "cycle" /\ cur.exc = "mark"
    /\ Len(cur.att) = 1 /\ Len(cur.batch) = 2

\* ---- C14 ------------------------------------------------------------------
\* C14: a pass that finds the primary not connected returns at once: it makes
\* no get_pending_data call, no primary insert attempt and no marking, and its
\* step leaves the local queue and the primary store unchanged.  A pass whose
\* get_pending_data returns nothing returns without an insert attempt and
\* without a mark_as_synced call, and when no entry was pending its step
\* leaves the local queue unchanged.
C14_SkipAndEmpty ==
    /\ [](cur.sconn = "no" =>
             /\ cur.sync = "skipped" /\ pc = "idle"
             /\ cur.batch = <<>> /\ cur.att = <<>> /\ cur.count = 0
             /\ got = NoGot)
    /\ [](cur.sync = "empty" =>
             /\ pc = "idle" /\ cur.sconn = "yes"
             /\ cur.batch = <<>> /\ cur.att = <<>> /\ cur.count = 0
             /\ got.op = "get" /\ got.res = <<>>)
    /\ [][cur'.sconn = "no" => UNCHANGED <<queue, primary, nextId>>]_vars
    /\ [][cur'.sync = "empty" =>
             /\ UNCHANGED <<primary, nextId>>
             /\ cur'.pcalls = (IF cur'.kind = "cycle" THEN cur.pcalls ELSE 0)
             /\ PendingPos(queue) = {} => queue' = queue]_vars

\* A pass of a cycle that found the primary not connected while an entry was
\* pending.
C14_Witness ==
    /\ CycleReturned /\ cur.sconn = "no" /\ cur.sync = "skipped"
    /\ PendingPos(queue) # {}

\* ---- C15 ------------------------------------------------------------------
\* A step of a collection cycle: the step that starts it or a step of
\* collect_data and of the sync pass it calls.
CycleStep == (pc = "idle" /\ pc' = "sensors") \/ (pc # "idle" /\ cur' # cur)

\* C15: no exception leaves collect_data: whatever call of a cycle raises (a
\* fetch, the mapping of a payload that is no object, is_connected or a
\* save_data), collect_data returns in that step; no step of a cycle changes
\* the run flag of the scheduler, and whenever a collect_data call of the
\* scheduler has returned the scheduler goes on: to the test of its loop
\* after the initial call, to the tick sleep after a job.
C15_CycleSwallows ==
    /\ [](pc # "propagated")
    /\ [](cur.cexc # "none" =>
             /\ pc = "idle" /\ ret = "collect" /\ cur.kind = "cycle"
             /\ cur.sync = "none" /\ ~cur.aborted)
    /\ []((pc = "idle" /\ sched.phase = "collect0") => ENABLED LoopTest)
    /\ []((pc = "idle" /\ sched.phase = "job") => ENABLED TickSleep)
    /\ [](sched.phase \in {"collect0", "job"} \/ pc = "idle")
    /\ [][CycleStep => running' = running]_vars

\* A cycle of the running scheduler ended by the mapping of a payload that is
\* no JSON object, with a cycle still to come.
C15_Witness ==
    /\ CycleReturned /\ cur.cexc = "shape"
    /\ running /\ ncyc < MaxCycles

\* ---- C16 ------------------------------------------------------------------
\* The fields of the record that come from wind.json and from sensors.json.
WindFields == <<"wind_speed", "wind_direction", "wind_min1_max", "wind_min1_avg",
                "wind_min1_dir", "wind_forever_max">>

SensorFields == <<"temperature1", "temperature2", "humidity", "pressure",
                  "avg_pressure", "rain", "billenes", "end">>

\* Every wind field and every sensor field of the record is absent.
AllAbsent(d) ==
    /\ \A i \in 1..Len(WindFields) : d[WindFields[i]] = None
    /\ \A i \in 1..Len(SensorFields) : d[SensorFields[i]] = None

\* C16: the record the persist step hands to the primary save_data or to the
\* local save_data never has all its wind fields and all its sensor fields
\* absent.
C16_NoEmptyShell ==
    [][(pc = "persist" /\ (cur'.psave \in {"ok", "fail"} \/ cur'.lsave \in {"ok", "fail"}))
          => ~AllAbsent(wdata)]_vars

\* ---- C17 ------------------------------------------------------------------
\* The reading a payload holds for a key: absent when the fetch failed and
\* when the object has no such key.
Reading(p, k) == IF p.kind = "dict" /\ k \in DOMAIN p.val THEN p.val[k] ELSE None

\* C17: in a cycle that built its record, each wind field of the record is
\* the reading of the wind payload for the key of that field and each sensor
\* field the reading of the sensor payload for its key (a reading of 0 stays
\* 0, a missing key gives absent); the fields of a source whose fetch failed
\* are all absent; and a cycle in which exactly one fetch failed and the other
\* returned an object builds its record and goes on to persist it.
C17_FieldsAreMapped ==
    /\ pc = "persist" =>
          /\ \A i \in 1..Len(WindKeys) :
                wdata[WindFields[i]] = Reading(wind_data, WindKeys[i])
          /\ \A i \in 1..Len(SensorKeys) :
                wdata[SensorFields[i]] = Reading(sensors_data, SensorKeys[i])
          /\ wind_data.kind = "none" =>
                \A i \in 1..Len(WindFields) : wdata[WindFields[i]] = None
          /\ sensors_data.kind = "none" =>
                \A i \in 1..Len(SensorFields) : wdata[SensorFields[i]] = None
          /\ wdata.date = ncyc /\ wdata.time = ncyc
          /\ cur.built
    /\ (cur.kind = "cycle" /\ pc \notin {"sensors", "map"} /\ cur.wind # cur.sens
          /\ cur.cexc = "none")
          => cur.built /\ ~cur.aborted

\* A record built from a failed wind fetch and a sensor object that lacks a
\* key and has a reading of 0.
C17_Witness ==
    /\ pc = "persist" /\ wind_data.kind = "none" /\ sensors_data.kind = "dict"
    /\ "hom" \notin DOMAIN sensors_data.val
    /\ wdata.temperature1 = None
    /\ "csap" \in DOMAIN sensors_data.val /\ wdata.rain = 0
    /\ wdata.humidity = FullSensors["rh"]

\* ---- C18 ------------------------------------------------------------------
\* C18: a fetch ends after one, two or three HTTP attempts.  An attempt that
\* succeeds ends it with the decoded body; an attempt is made only after
\* failed ones, and after the k-th attempt that is followed by another one
\* the fetch sleeps once, for 2*k seconds; a network error or a bad status in
\* attempt 1 or 2 is always followed by the next attempt; a failed third
\* attempt ends the fetch with None and without a sleep.
C18_ThreeAttempts ==
    req.result \in {"json", "none", "raise"} =>
       LET n == req.attempts
       IN  /\ n \in 1..3
           /\ \A k \in 1..(n - 1) : req.outs[k] # "ok"
           /\ req.result = "json" <=> req.outs[n] = "ok"
           /\ Len(req.waits) = n - 1
           /\ \A k \in 1..(n - 1) : req.waits[k] = 2 * k
           /\ \A k \in 1..2 : (k <= n /\ req.outs[k] = "reqerr") => n > k
           /\ (n = 3 /\ req.outs[3] = "reqerr") => req.result = "none"

\* Three network errors: sleeps of 2 and 4 seconds, then None.
C18_Witness ==
    /\ req.result = "none" /\ req.attempts = 3
    /\ req.waits = <<2, 4>>
    /\ \A k \in 1..3 : req.outs[k] = "reqerr"

\* ---- C19 ------------------------------------------------------------------
\* C19: a fetch that gets a body that does not parse as JSON ends with that
\* attempt: it returns None, makes no further attempt and does not sleep
\* after it.
C19_BadJsonEndsFetch ==
    req.result # "pending" =>
       \A k \in 1..req.attempts :
          req.outs[k] = "badjson" =>
             /\ req.attempts = k
             /\ req.result = "none"
             /\ Len(req.waits) = k - 1

\* ---- C20 ------------------------------------------------------------------
\* C20: a local save_data that returns True has appended exactly one row,
\* pending, holding the record it was given, under an id no row had before,
\* and has changed no other row; one that returns False has changed nothing;
\* no other step adds a row; so the ids of the rows are distinct in every
\* state.
C20_SaveAddsOneFresh ==
    /\ [](\A p, n \in 1..Len(queue) : p # n => queue[p].id # queue[n].id)
    /\ [][Len(queue') > Len(queue) =>
             /\ Len(queue') = Len(queue) + 1
             /\ SubSeq(queue', 1, Len(queue)) = queue
             /\ ~queue'[Len(queue')].synced
             /\ queue'[Len(queue')].data.fmt = "object"
             /\ \A p \in 1..Len(queue) : queue[p].id # queue'[Len(queue')].id]_vars
    /\ [][ret' = "save" =>
             IF got'.result
             THEN /\ Len(queue') = Len(queue) + 1
                  /\ queue'[Len(queue')].id = got'.id
             ELSE queue' = queue]_vars

\* A second successful save, made after the first row was marked synced.
C20_Witness ==
    /\ ret = "save" /\ got.result
    /\ Len(queue) = 2 /\ queue[1].synced /\ ~queue[2].synced
    /\ queue[1].id # queue[2].id

\* ---- C21 ------------------------------------------------------------------
\* The value by which the call traced by g reports a failure: False from
\* save_data and mark_as_synced, [] from get_pending_data, 0 from
\* cleanup_old_records.
FailureValue(g) ==
    CASE g.op \in {"save", "mark"} -> ~g.result
      [] g.op = "get" -> g.res = <<>>
      [] g.op = "cleanup" -> g.count = 0
      [] OTHER -> TRUE

HasRow(q, id) == \E p \in 1..Len(q) : q[p].id = id

\* C22: cleanup_old_records(days) removes rows and changes none; every
\* pending row stays, whatever its timestamp, and every synced row whose
\* timestamp is not before now - days stays; when the DELETE is committed
\* every synced row with a timestamp before now - days is gone; the call
\* returns the number of rows it removed.
C22_CleanupDeletesExpired ==
    [][ret' = "cleanup" =>
          /\ \A p \in 1..Len(queue') : \E n \in 1..Len(queue) : queue[n] = queue'[p]
          /\ \A p, n \in 1..Len(queue') :
                p < n => \E k, l \in 1..Len(queue) :
                            k < l /\ queue[k] = queue'[p] /\ queue[l] = queue'[n]
          /\ got'.count = Len(queue) - Len(queue')
          /\ \A p \in 1..Len(queue) :
                LET old == queue[p].ts < clock - got'.days
                IN  /\ ~queue[p].synced => HasRow(queue', queue[p].id)
                    /\ (queue[p].synced /\ ~old) => HasRow(queue', queue[p].id)
                    /\ (got'.fault = "none" /\ queue[p].synced /\ old)
                          => ~HasRow(queue', queue[p].id)]_vars

\* cleanup_old_records has deleted one synced row and returned 1; a pending
\* row as old as the deleted one is still in the table.
C22_Witness ==
    /\ ret = "cleanup" /\ got.count = 1 /\ Len(got.pend) = Len(queue) + 1
    /\ \E p \in 1..Len(queue) : ~queue[p].synced /\ queue[p].ts < clock - got.days

\* ---- C23 ------------------------------------------------------------------
\* C23: in every call of the primary save_data an INSERT is executed only
\* after the probe SELECT 1 of the same call went through, and a call whose
\* probe did not go through (it failed, or no connection could be had for
\* it) returns False having executed no INSERT and no commit.
C23_ProbeBeforeInsert ==
    db.op = "save" =>
       LET ev == db.events
           probed(k) == \E j \in 1..(k - 1) : ev[j] = Ev("probe", TRUE)
       IN  /\ \A k \in 1..Len(ev) : ev[k].what \in {"insert", "commit"} => probed(k)
           /\ ~probed(Len(ev) + 1) =>
                 /\ ~db.result
                 /\ \A k \in 1..Len(ev) : ev[k].what \notin {"insert", "commit"}

\* A save_data whose probe failed on a connection of the pool: it returned
\* False after the rollback, with no INSERT.
C23_Witness ==
    /\ db.op = "save" /\ ~db.result
    /\ \E k \in 1..Len(db.events) : db.events[k] = Ev("probe", FALSE)

\* ---- C24 ------------------------------------------------------------------
\* C24: no call of is_connected or save_data raises; a call in which the
\* creation of the pool, the taking of a connection, the probe, the INSERT
\* or the commit failed returns False; save_data returns True only when its
\* INSERT is committed, and then the primary store has one row more; when
\* the INSERT or the commit fails the primary store is as before;
\* is_connected never changes the primary store.
C24_ClientNeverRaises ==
    /\ [](db.op # "none" =>
             /\ ~db.propagated
             /\ (\E k \in 1..Len(db.events) : ~db.events[k].ok) => ~db.result)
    /\ [][db'.op = "save" =>
             LET ev == db'.events
                 done(e) == \E k \in 1..Len(ev) : ev[k] = e
             IN  /\ db'.result => done(Ev("commit", TRUE))
                 /\ done(Ev("commit", TRUE))
                       <=> PrimaryRows(primary') = PrimaryRows(primary) + 1
                 /\ ~done(Ev("commit", TRUE)) => primary' = primary
                 /\ done(Ev("insert", FALSE)) =>
                       \A k \in 1..Len(ev) : ev[k].what # "commit"]_vars
    /\ [][db'.op \in {"is_connected", "connect"} => primary' = primary]_vars

\* A save_data whose INSERT went through and whose commit failed: it
\* returned False after the rollback.
C24_Witness ==
    /\ db.op = "save" /\ ~db.result
    /\ \E k \in 1..Len(db.events) : db.events[k] = Ev("commit", FALSE)

\* ---- C30 ------------------------------------------------------------------
\* A record whose fields are None, strings, ints and floats other than nan.
ValidRecord(r) == \A f \in DOMAIN r : r[f].t # "nan"

\* C30: a valid record that was saved and read back has the 16 fields of
\* the record and the id, and each of the 16 fields is equal (Python's ==)
\* to the field of the record that was saved.
C30_RoundTrip ==
    (rt.done /\ ValidRecord(rt.rec)) =>
       /\ DOMAIN rt.back = Range(RecordFields) \cup {"id"}
       /\ Len(RecordFields) = 16
       /\ \A f \in Range(RecordFields) : PyEq(rt.back[f], rt.rec[f])
       /\ rt.back["id"] = JStr(rt.id)

\* A record read back whose rain reading is the negative float -0.5.
C30_Witness ==
    /\ rt.done /\ ValidRecord(rt.rec)
    /\ rt.rec["rain"] = JFloat(-5)
    /\ rt.back["rain"] = JFloat(-5)

\* ---- C25 ------------------------------------------------------------------
\* The step in which run_scheduler is called.
Starts == sched.phase = "new" /\ sched'.phase # "new"

\* C25: the run flag is false, no handler is installed and no job is
\* scheduled as long as run_scheduler has not been called; the call sets the
\* flag, installs signal_handler for SIGINT and for SIGTERM and schedules one
\* job; the first test of the loop comes after exactly one collect_data call,
\* the initial one, which has returned by then.
C25_StartOfScheduler ==
    /\ [](sched.phase = "new" =>
             ~running /\ sched.handlers = {} /\ sched.jobs = 0 /\ ncyc = 0)
    /\ [][Starts => /\ running'
                    /\ sched'.handlers = {"SIGINT", "SIGTERM"}
                    /\ sched'.jobs = 1
                    /\ sched'.initial = 0 /\ ncyc' = 0]_vars
    /\ [][(~sched.looped /\ sched'.looped) =>
             /\ sched.initial = 1 /\ ncyc = 1
             /\ pc = "idle" /\ sched.phase = "collect0"]_vars
    /\ [](~sched.looped => sched.phase \in {"new", "initial", "collect0"})

\* The loop is entered after the initial collection: the job is scheduled,
\* both handlers are installed.
C25_Witness ==
    /\ sched.phase = "body" /\ running
    /\ sched.initial = 1 /\ ncyc = 1
    /\ sched.handlers = {"SIGINT", "SIGTERM"} /\ sched.jobs = 1

\* ---- C26 ------------------------------------------------------------------
\* C26: the loop of run_scheduler is left only by its test, with the run flag
\* false: no exception raised in an iteration, the backoff sleep included,
\* leaves run_scheduler.
C26_LoopLeftByFlagOnly ==
    /\ sched.phase # "raised"
    /\ (sched.phase \in {"stopped", "done"} => ~running)

\* ---- C27 ------------------------------------------------------------------
\* C27: _cleanup has run when run_scheduler has returned, and over the life
\* of the collector it never runs a second time, the teardown of the object
\* included.
C27_CleanupExactlyOnce ==
    /\ (sched.phase = "done" => sched.cleanups >= 1)
    /\ sched.cleanups <= 1

\* ---- C28 ------------------------------------------------------------------
\* C28: after a signal delivered to the running scheduler the run flag is
\* false, the loop is left by its next test and not by an exception, and a
\* scheduler that is over has run its final cleanup.
C28_SignalStopsLoop ==
    sched.signalled =>
       /\ ~running
       /\ sched.phase # "raised"
       /\ (sched.phase = "done" => sched.cleanups >= 1)

\* ---- C29 ------------------------------------------------------------------
\* C29: there is no pool before the first is_connected() of a cycle or of a
\* sync pass, and once the scheduler has stopped and run its final cleanup
\* the pool is closed.
C29_PoolLifecycle ==
    /\ (ncyc = 0 => pool = "none")
    /\ (sched.phase = "done" => pool # "open")

\* ---- C31 ------------------------------------------------------------------
\* C31: on a settings file that lacks a required key the construction of the
\* collector fails, and run_scheduler is never started.
C31_MissingKeyFailsStartup ==
    settings.missing # "none" =>
       /\ settings.state # "constructed"
       /\ sched.phase = "new"

\* ---- C32 ------------------------------------------------------------------
\* The steps of a cycle in their order, and the returns of collect_data.
CycleOrder ==
    {<<"idle", "sensors">>, <<"sensors", "map">>, <<"map", "persist">>,
     <<"persist", "sync">>, <<"sync", "loop">>}
       \cup {<<p, "idle">> : p \in {"sensors", "map", "persist", "sync", "loop"}}

\* C32: a cycle goes from the wind fetch to the sensor fetch, the mapping,
\* the persist step and the sync pass, in this order; the sensor fetch
\* follows whatever the wind fetch returned; and every cycle that was not
\* aborted has invoked the sync routine when it returns, after its persist
\* step, wherever the record went.
C32_CycleOrder ==
    /\ [][(pc' # pc /\ cur'.kind = "cycle") => <<pc, pc'>> \in CycleOrder]_vars
    /\ [][(pc = "idle" /\ ncyc' > ncyc /\ cur'.cexc = "none") => pc' = "sensors"]_vars
    /\ [](pc = "sync" => cur.built /\ cur.conn # "none")
    /\ []((CycleReturned /\ ~cur.aborted) => cur.sync # "none")

\* ---- C33 ------------------------------------------------------------------
\* The row at position p becomes synced in this step.
Marked(p) == ~queue[p].synced /\ queue'[p].synced

\* C33: a row becomes synced only in a step of the loop of a sync pass that
\* has just committed the record of that row in the primary store, or in a
\* get_pending_data call that found its text to be no JSON; so every synced
\* row has its record in the primary store or holds such a text.
C33_SyncedOnlyAfterInsert ==
    /\ [][\A p \in 1..Len(queue) :
             Marked(p) =>
                \/ /\ pc = "loop"
                   /\ pending_data[idx].id = queue[p].id
                   /\ primary'[pending_data[idx].rec.rid] = primary[pending_data[idx].rec.rid] + 1
                \/ /\ got'.op = "get"
                   /\ queue[p].data.fmt = "invalid"
                   /\ queue[p].id \in Range(got'.rows)]_vars
    /\ [](\A p \in 1..Len(queue) :
             queue[p].synced =>
                primary[queue[p].data.rec.rid] >= 1 \/ queue[p].data.fmt = "invalid")

\* One row marked after its insert and one marked as corrupted.
C33_Witness ==
    \E p, q \in 1..Len(queue) :
       /\ queue[p].synced /\ queue[p].data.fmt = "object"
       /\ primary[queue[p].data.rec.rid] >= 1
       /\ queue[q].synced /\ queue[q].data.fmt = "invalid"

\* ---- C34 ------------------------------------------------------------------
\* What collect_data and the sync pass it calls work on.
CycleState == <<pc, cur, pending_data, idx, wind_data, sensors_data, wdata, queue, primary>>

\* A step of the running collect_data call can be taken.
CycleGoesOn ==
    ENABLED (FetchSensors \/ MapFields \/ Persist \/ CycleSync \/ SyncEntry)

\* C34: a signal that arrives while a cycle is at any of its steps changes
\* nothing of the cycle; a started cycle can always take its next step,
\* whatever the run flag is; collect_data returns by itself, at the end of
\* its sync pass, at the abort for two missing sources or from its handler;
\* and the run flag is tested only when the call has returned.
C34_NoCancellation ==
    /\ [][(running /\ ~running' /\ pc # "idle") => CycleState' = CycleState]_vars
    /\ [](pc # "idle" => CycleGoesOn)
    /\ [](pc # "idle" => sched.phase \in {"collect0", "job"})
    /\ [][(pc # "idle" /\ pc' = "idle") =>
             (cur'.sync # "none" \/ cur'.aborted \/ cur'.cexc # "none")]_vars
    /\ [][sched'.phase \in {"body", "stopped"} /\ sched.phase \in {"collect0", "test"} =>
             pc = "idle"]_vars

\* A cycle hit by a signal in its persist step has run its sync pass to the
\* end and returned; the flag has not been tested since.
C34_Witness ==
    /\ sched.at = "persist" /\ ~running
    /\ CycleReturned /\ cur.sync = "done"
    /\ sched.phase = "job"

\* ---- C35 ------------------------------------------------------------------
\* C35: a collection cycle starts only when no cycle and no sync pass is in
\* progress, from the initial call of run_scheduler or from the due-check of
\* its loop, one at a time; between the start of a cycle and its return the
\* scheduler stays where it called collect_data.
C35_OneCycleAtATime ==
    /\ [][ncyc' > ncyc =>
             /\ pc = "idle" /\ pending_data = <<>> /\ idx = 0
             /\ sched.phase \in {"initial", "pending"}
             /\ ncyc' = ncyc + 1]_vars
    /\ [](sched.phase \in {"initial", "pending"} => pc = "idle")
    /\ [][(pc # "idle" /\ sched'.phase # sched.phase) => FALSE]_vars

\* The second cycle is running after the first has returned, with a stop
\* request made meanwhile.
C35_Witness ==
    /\ ncyc = 2 /\ pc = "persist"
    /\ sched.phase = "job" /\ sched.stopreq

\* ---- C36 ------------------------------------------------------------------
\* C36: no operation of the local store has two connections open at the same
\* time: each call opens at most one, and closes it before it returns.
C36_OneConnectionPerCall == got.conns <= 1

\* ---- C37 ------------------------------------------------------------------
\* C37: a stop request is not lost: once the host has asked for the stop the
\* run flag is false, whenever the request came, so that the next test of
\* the loop leaves it.
C37_StopNeverLost == sched.stopreq => ~running

\* ---- C38 ------------------------------------------------------------------
\* The row with this id is pending and holds a JSON object.
WellFormedPending(id) ==
    \E p \in 1..Len(queue) :
       queue[p].id = id /\ ~queue[p].synced /\ queue[p].data.fmt = "object"

\* A pending row holds JSON that is not an object (C9).
Blocked == \E p \in 1..Len(queue) : ~queue[p].synced /\ queue[p].data.fmt = "nonobject"

\* C38: with the primary store connected and accepting every insert, no
\* storage error in the local store and cycles that keep reaching their sync
\* pass, every well-formed pending entry is eventually marked synced.
C38_BacklogDrains ==
    \A id \in BacklogRids :
       []<>(cur.sync # "none") =>
          ((rejects = {} /\ WellFormedPending(id)) ~> SyncedId(id))

\* ---- C39 ------------------------------------------------------------------
\* C39: with the primary store connected and sync passes that keep coming,
\* every well-formed pending entry whose record the primary store accepts is
\* eventually marked synced, whatever entries it rejects.
C39_NoStarvation ==
    \A id \in BacklogRids :
       []<>(cur.sync # "none") =>
          ((~Blocked /\ WellFormedPending(id) /\ id \notin rejects) ~> SyncedId(id))

\* ---- C40 ------------------------------------------------------------------
\* C40: no call of the local store (a sync pass makes only such calls) turns
\* a synced entry back to pending, and an entry leaves the table only in
\* cleanup_old_records and only while it is synced.
C40_SyncedMonotone ==
    [][\A p \in 1..Len(queue) :
          IF \E r \in 1..Len(queue') : queue'[r].id = queue[p].id
          THEN queue[p].synced =>
                  \A r \in 1..Len(queue') : queue'[r].id = queue[p].id => queue'[r].synced
          ELSE queue[p].synced /\ ret' = "cleanup"]_vars

\* cleanup_old_records has deleted a synced entry and left a pending one of
\* the same age.
C40_Witness ==
    /\ ret = "cleanup"
    /\ got.count >= 1
    /\ \E p \in 1..Len(got.pend) :
          /\ got.pend[p].synced
          /\ \A r \in 1..Len(queue) : queue[r].id # got.pend[p].id
          /\ \E r \in 1..Len(queue) : ~queue[r].synced /\ queue[r].ts = got.pend[p].ts

====
